---- MODULE Spec2Model ----
(***************************************************************************)
(* Ingestion and multi-sink persistence pipeline of the CosmicWatch        *)
(* recorder: the event codec (CosmicWatchDataService), the append file     *)
(* sink (useAutoSave), the remote upload sink (onlineDataSlice,            *)
(* useOnlineAutoUpload, OnlineDataService) and the embedded store          *)
(* (IndexedDBDataService, measurementSlice thunks, SessionManager).        *)
(*                                                                         *)
(* Eleven specifications share the variables of this module:                  *)
(*   SpecCodec   - parseRawData / formatDataForFile / formatRawDataForFile *)
(*                 applied to a bounded set of text lines;                 *)
(*   SpecFile    - the file sink hook driven by received lines;            *)
(*   Spec        - the measurement store and the remote upload sink;       *)
(*   SpecService - one OnlineDataService followed request by request;      *)
(*   SpecIdb     - IndexedDBDataService called directly;                   *)
(*   SpecStore   - the embedded store behind SessionManager;               *)
(*   SpecQuery   - getData and generateADCHistogram read a stored set;     *)
(*   SpecConnect - initializeOnlineService thunks and the connected flag;  *)
(*   SpecCadence - the upload interval of useOnlineAutoUpload in time;     *)
(*   SpecPersist - SpecStore with flushes that carry the pending events;   *)
(*   SpecSlice   - the reducers of onlineDataSlice in any interleaving.    *)
(* Each specification leaves the other parts at their initial values.      *)
(***************************************************************************)
EXTENDS Integers, Sequences, FiniteSets, TLC

VARIABLES
    \* ---- codec harness (SpecCodec)
    line,        \* the raw text line handed to parseRawData (sequence of characters)
    now,         \* the value getCurrentTimestampString() returned inside parseRawData
    parsed,      \* result of parseRawData(line): an event record, Null, or NotRun
    formatted,   \* text produced by formatDataForFile / formatRawDataForFile, or NotRun
    codecPc,     \* "input" -> "parsed" -> "formatted"; "idle" in the sink specifications
    \* ---- measurement store and file sink (SpecFile)
    measurement, \* state.measurement of the store (measurementSlice)
    clock,       \* how many measurement start times have been taken so far
    rxLog,       \* history: every raw line received, in order of arrival
    fileSettings,\* state.fileSettings: autoSavePath, includeComments, enabled
    autoSave,    \* useAutoSave's own state: isFileCreated, initialIncludeCommentsRef
    fileOps,     \* writeFile calls issued and not yet completed, in order of issue
    fs,          \* the file system: path -> [exists, content]
    sessionLines,\* history: the lines received in the current file session
    didReset,    \* history: the last step ran resetState
    idleLines,   \* history: the lines received while no file session was active
    writeFailures, \* how many writeFile calls have failed so far
    \* ---- remote sink (Spec)
    onlineData,  \* state.onlineData of the store (onlineDataSlice)
    hook,        \* useOnlineAutoUpload's refs: serviceRef, previousConnectedRef
    services,    \* the OnlineDataService objects: id -> authToken, isConnected, retryCount
    uploads,     \* uploadDataOnline / uploadDataBatch thunks in flight
    inits,       \* initializeOnlineService thunks in flight
    syncs,       \* scheduled syncOfflineData calls, each with the values it closed over
    ghost,       \* history: events accepted, stored by the server, discarded by overflow
    \* ---- one OnlineDataService followed request by request (SpecService)
    svc,         \* the service object: authToken, isConnected, retryCount
    calls,       \* the uploadDataBatch calls running on it: call -> position
    \* ---- embedded store (SpecIdb, SpecStore)
    idb,         \* the IndexedDB object stores: sessions and measurementData
    idbGhost,    \* history: events of failed storeData calls, events accepted per session
    sessionManager, \* SessionManager's own state: isCreatingSession
    storeOps,    \* measurementSlice thunks in flight, in order of dispatch
    \* ---- reads of the embedded store (SpecQuery)
    query,       \* the options of the read under way, the pages and bins returned so far
    \* ---- connecting to the server (SpecConnect)
    connect,     \* initializeOnlineService thunks in flight, and what the settled ones did
    \* ---- the upload interval in time (SpecCadence)
    cadence      \* isRecording, the age of the interval, the time since the last upload, the batch in flight

codecVars == <<line, now, parsed, formatted, codecPc>>

fileVars == <<measurement, clock, rxLog, fileSettings, autoSave, fileOps, fs,
              sessionLines, didReset, idleLines, writeFailures>>

remoteVars == <<onlineData, hook, services, uploads, inits, syncs, ghost>>

callVars == <<svc, calls>>

storeVars == <<idb, idbGhost, sessionManager, storeOps>>

queryVars == <<query>>

connectVars == <<connect>>

cadenceVars == <<cadence>>

restVars == <<callVars, storeVars, queryVars, connectVars, cadenceVars>>

vars == <<codecVars, fileVars, remoteVars, restVars>>

----------------------------------------------------------------------------
(* Text: a string is a sequence of one-character strings.                  *)

Digits == <<"0", "1", "2", "3", "4", "5", "6", "7", "8", "9">>

IsDigit(c) == \E i \in 1..Len(Digits) : Digits[i] = c

DigitVal(c) == (CHOOSE i \in 1..Len(Digits) : Digits[i] = c) - 1

\* the characters /\s/ matches, among the characters of the model
IsSpace(c) == c \in {" ", "\t"}

RECURSIVE TrimStart(_)
TrimStart(s) == IF s # <<>> /\ IsSpace(Head(s)) THEN TrimStart(Tail(s)) ELSE s

RECURSIVE TrimEnd(_)
TrimEnd(s) ==
    IF s # <<>> /\ IsSpace(s[Len(s)]) THEN TrimEnd(SubSeq(s, 1, Len(s) - 1)) ELSE s

\* String.prototype.trim
Trim(s) == TrimEnd(TrimStart(s))

\* String.prototype.startsWith
StartsWith(s, c) == s # <<>> /\ Head(s) = c

\* String.prototype.includes, for a one-character needle
Includes(s, c) == \E i \in 1..Len(s) : s[i] = c

\* the leading characters of s that are not whitespace
RECURSIVE WordPrefix(_)
WordPrefix(s) ==
    IF s = <<>> \/ IsSpace(Head(s)) THEN <<>> ELSE <<Head(s)>> \o WordPrefix(Tail(s))

\* s.split(/\s+/): the pieces between maximal runs of whitespace. A leading or
\* trailing run yields an empty first or last piece, as in JavaScript.
RECURSIVE SplitWs(_)
SplitWs(s) ==
    LET w    == WordPrefix(s)
        rest == SubSeq(s, Len(w) + 1, Len(s))
    IN  IF rest = <<>> THEN <<w>>
        ELSE <<w>> \o SplitWs(TrimStart(rest))

\* s.split("\t")
RECURSIVE SplitTab(_)
SplitTab(s) ==
    IF ~Includes(s, "\t") THEN <<s>>
    ELSE LET i == CHOOSE k \in 1..Len(s) :
                    s[k] = "\t" /\ \A j \in 1..(k - 1) : s[j] # "\t"
         IN  <<SubSeq(s, 1, i - 1)>> \o SplitTab(SubSeq(s, i + 1, Len(s)))

\* fields.join(sep)
RECURSIVE Join(_, _)
Join(fields, sep) ==
    IF fields = <<>> THEN <<>>
    ELSE IF Len(fields) = 1 THEN fields[1]
    ELSE fields[1] \o sep \o Join(Tail(fields), sep)

\* s.replace(/\s+/g, "\t"): every maximal whitespace run becomes one tab
RECURSIVE ReplaceWsRuns(_)
ReplaceWsRuns(s) ==
    IF s = <<>> THEN <<>>
    ELSE IF IsSpace(Head(s)) THEN <<"\t">> \o ReplaceWsRuns(TrimStart(s))
    ELSE <<Head(s)>> \o ReplaceWsRuns(Tail(s))

----------------------------------------------------------------------------
(* Numbers: a JavaScript number is NaN or the decimal num / 10^scale, kept  *)
(* normalised (num is not a multiple of 10 unless scale = 0). The model's   *)
(* alphabet has no exponent letter and its values stay far inside the range *)
(* where JavaScript prints plain decimal notation.                          *)

NaN == [nan |-> TRUE, num |-> 0, scale |-> 0]

Num(n, sc) == [nan |-> FALSE, num |-> n, scale |-> sc]

\* isNaN(x)
isNaN(x) == x.nan

RECURSIVE Pow10(_)
Pow10(k) == IF k = 0 THEN 1 ELSE 10 * Pow10(k - 1)

RECURSIVE DigitPrefix(_)
DigitPrefix(s) ==
    IF s = <<>> \/ ~IsDigit(Head(s)) THEN <<>> ELSE <<Head(s)>> \o DigitPrefix(Tail(s))

RECURSIVE DigitsValue(_)
DigitsValue(d) ==
    IF d = <<>> THEN 0
    ELSE DigitsValue(SubSeq(d, 1, Len(d) - 1)) * 10 + DigitVal(d[Len(d)])

StripSign(s) == IF s # <<>> /\ Head(s) \in {"+", "-"} THEN Tail(s) ELSE s

SignOf(s) == IF s # <<>> /\ Head(s) = "-" THEN -1 ELSE 1

\* parseInt(s, 10): optional sign, then the longest digit prefix; NaN without one
parseInt(s) ==
    LET d == DigitPrefix(StripSign(s))
    IN  IF d = <<>> THEN NaN ELSE Num(SignOf(s) * DigitsValue(d), 0)

RECURSIVE StripTrailingZeros(_)
StripTrailingZeros(d) ==
    IF d # <<>> /\ d[Len(d)] = "0" THEN StripTrailingZeros(SubSeq(d, 1, Len(d) - 1))
    ELSE d

\* parseFloat(s): optional sign, the longest prefix digits [. digits] or . digits
parseFloat(s) ==
    LET body == StripSign(s)
        ip   == DigitPrefix(body)
        rest == SubSeq(body, Len(ip) + 1, Len(body))
        fp   == IF StartsWith(rest, ".") THEN DigitPrefix(Tail(rest)) ELSE <<>>
        fz   == StripTrailingZeros(fp)
    IN  IF ip = <<>> /\ fp = <<>> THEN NaN
        ELSE Num(SignOf(s) * DigitsValue(ip \o fz), Len(fz))

RECURSIVE NatToDigits(_)
NatToDigits(n) ==
    IF n < 10 THEN <<Digits[n + 1]>>
    ELSE NatToDigits(n \div 10) \o <<Digits[(n % 10) + 1]>>

RECURSIVE PadLeft(_, _)
PadLeft(d, width) == IF Len(d) >= width THEN d ELSE PadLeft(<<"0">> \o d, width)

\* String(x) as Array.prototype.join applies it to a number
NumberToString(x) ==
    IF x.nan THEN <<"N", "a", "N">>
    ELSE LET a    == IF x.num < 0 THEN -x.num ELSE x.num
             ip   == a \div Pow10(x.scale)
             fr   == a % Pow10(x.scale)
             sign == IF x.num < 0 THEN <<"-">> ELSE <<>>
         IN  sign \o NatToDigits(ip)
                  \o (IF x.scale = 0 THEN <<>>
                      ELSE <<".">> \o PadLeft(NatToDigits(fr), x.scale))

----------------------------------------------------------------------------
(* Event codec: CosmicWatchDataService                                      *)

\* parseRawData's rejected result (null)
Null == [null |-> TRUE]

IsNull(x) == "null" \in DOMAIN x

\* marks a harness variable whose operation has not run yet
NotRun == [notRun |-> TRUE]

HasRun(x) == "notRun" \notin DOMAIN x

\* CosmicWatchDataService.DEBUG
DEBUG == FALSE

\* the six numeric fields parseRawData inspects after dispatching on the shape;
\* the list it builds is not used for anything
validationIssues(parsedData) ==
    { f \in {"event", "time", "adc", "sipm", "deadtime", "temp"} : isNaN(parsedData[f]) }

\* a variant of parseRawData that stamps the host receipt time on every shape
parseRawData_hostDate(ln, pcTimestamp) ==
    IF StartsWith(ln, "#") /\ DEBUG THEN Null
    ELSE
    LET parts == SplitWs(Trim(ln))
    IN  CASE Len(parts) = 6 ->
               [event    |-> parseInt(parts[1]),
                date     |-> pcTimestamp,
                time     |-> parseInt(parts[2]),
                adc      |-> parseInt(parts[3]),
                sipm     |-> parseFloat(parts[4]),
                deadtime |-> parseInt(parts[5]),
                temp     |-> parseFloat(parts[6])]
          [] Len(parts) = 7 ->
               [event    |-> parseInt(parts[1]),
                date     |-> pcTimestamp,
                time     |-> parseInt(parts[3]),
                adc      |-> parseInt(parts[4]),
                sipm     |-> parseFloat(parts[5]),
                deadtime |-> parseInt(parts[6]),
                temp     |-> parseFloat(parts[7])]
          [] Len(parts) = 9 ->
               [event    |-> parseInt(parts[1]),
                date     |-> pcTimestamp,
                time     |-> parseInt(parts[3]),
                adc      |-> parseInt(parts[4]),
                sipm     |-> parseFloat(parts[5]),
                deadtime |-> parseInt(parts[6]),
                temp     |-> parseFloat(parts[7]),
                hum      |-> parseFloat(parts[8]),
                press    |-> parseFloat(parts[9])]
          [] OTHER -> Null

\* parseRawData(line); pcTimestamp is what getCurrentTimestampString() returns.
\* The comment test only returns under DEBUG; with DEBUG off a line starting
\* with '#' goes on to the split like any other line.
parseRawData(ln, pcTimestamp) ==
    IF StartsWith(ln, "#") /\ DEBUG THEN Null
    ELSE
    LET parts == SplitWs(Trim(ln))
    IN  CASE Len(parts) = 6 ->
               [event    |-> parseInt(parts[1]),
                date     |-> pcTimestamp,
                time     |-> parseInt(parts[2]),
                adc      |-> parseInt(parts[3]),
                sipm     |-> parseFloat(parts[4]),
                deadtime |-> parseInt(parts[5]),
                temp     |-> parseFloat(parts[6])]
          [] Len(parts) = 7 ->
               [event    |-> parseInt(parts[1]),
                date     |-> parts[2],
                time     |-> parseInt(parts[3]),
                adc      |-> parseInt(parts[4]),
                sipm     |-> parseFloat(parts[5]),
                deadtime |-> parseInt(parts[6]),
                temp     |-> parseFloat(parts[7])]
          [] Len(parts) = 9 ->
               [event    |-> parseInt(parts[1]),
                date     |-> parts[2],
                time     |-> parseInt(parts[3]),
                adc      |-> parseInt(parts[4]),
                sipm     |-> parseFloat(parts[5]),
                deadtime |-> parseInt(parts[6]),
                temp     |-> parseFloat(parts[7]),
                hum      |-> parseFloat(parts[8]),
                press    |-> parseFloat(parts[9])]
          [] OTHER -> Null

\* a variant of formatDataForFile that emits sipm before adc
formatDataForFile_swapped(data) ==
    Join(<<NumberToString(data.event)>>
           \o (IF "date" \in DOMAIN data /\ data.date # <<>> THEN <<data.date>> ELSE <<>>)
           \o (IF "time" \in DOMAIN data THEN <<NumberToString(data.time)>> ELSE <<>>)
           \o <<NumberToString(data.sipm), NumberToString(data.adc),
                NumberToString(data.deadtime), NumberToString(data.temp)>>
           \o (IF "hum" \in DOMAIN data THEN <<NumberToString(data.hum)>> ELSE <<>>)
           \o (IF "press" \in DOMAIN data THEN <<NumberToString(data.press)>> ELSE <<>>),
         <<"\t">>)

\* formatDataForFile(data): event, date if truthy, time if defined, adc, sipm,
\* deadtime, temp, hum and press if defined, joined by tabs
formatDataForFile(data) ==
    Join(<<NumberToString(data.event)>>
           \o (IF "date" \in DOMAIN data /\ data.date # <<>> THEN <<data.date>> ELSE <<>>)
           \o (IF "time" \in DOMAIN data THEN <<NumberToString(data.time)>> ELSE <<>>)
           \o <<NumberToString(data.adc), NumberToString(data.sipm),
                NumberToString(data.deadtime), NumberToString(data.temp)>>
           \o (IF "hum" \in DOMAIN data THEN <<NumberToString(data.hum)>> ELSE <<>>)
           \o (IF "press" \in DOMAIN data THEN <<NumberToString(data.press)>> ELSE <<>>),
         <<"\t">>)

\* formatRawDataForFile(line): comment lines and lines holding a tab pass
\* through; otherwise every whitespace run becomes a tab
formatRawDataForFile(ln) ==
    IF StartsWith(Trim(ln), "#") THEN ln
    ELSE IF Includes(ln, "\t") THEN ln
    ELSE ReplaceWsRuns(ln)

----------------------------------------------------------------------------
(* Optional values and array helpers                                       *)

\* null / undefined
None == <<>>

Some(x) == <<x>>

\* Array.prototype.slice(-n): the last n elements; the whole array when n is 0
\* (slice(-0) is slice(0)); everything from index -n on when n is negative
SliceLast(s, n) ==
    IF n = 0 THEN s
    ELSE IF n > 0 THEN (IF Len(s) > n THEN SubSeq(s, Len(s) - n + 1, Len(s)) ELSE s)
    ELSE SubSeq(s, (-n) + 1, Len(s))

\* F applied to the value of v
Then(v, F(_)) == CHOOSE r \in {F(x) : x \in {v}} : TRUE

\* Array.prototype.slice(n) for n >= 0
SliceFrom(s, n) == SubSeq(s, n + 1, Len(s))

----------------------------------------------------------------------------
(* Measurement store: measurementSlice                                     *)

\* initialState.maxMemoryItems
maxMemoryItems == 100

\* initialState.storageMode.memoryLimit
memoryLimit == 1000

\* initialState.batchSize
InitialPendingBatchSize == 50

\* most lines received in one behaviour
MaxLines == 2

\* most measurement start times taken in one behaviour (clearData allows a new one)
MaxRecordings == 2

\* initialState of measurementSlice (startTime, endTime: 0 is null). A parsed
\* event object is held by reference: the arrival index of its line, 0 for
\* null; EventOf gives the object.
MeasurementInit ==
    [rawData          |-> <<>>,
     parsedData       |-> <<>>,
     startTime        |-> 0,
     endTime          |-> 0,
     latestRawData    |-> None,
     latestParsedData |-> 0,
     totalEvents      |-> 0,
     useIndexedDB     |-> FALSE,
     idbEnabled       |-> FALSE,
     isInitialized    |-> FALSE,
     lastError        |-> FALSE,
     currentSession   |-> None,
     pendingBatch     |-> <<>>,
     batchSize        |-> InitialPendingBatchSize]

\* processSerialData.fulfilled
processSerialDataFulfilled(m, rawData, parsedData, timestamp) ==
    LET m1 == [m EXCEPT !.rawData = Append(@, rawData),
                        !.latestRawData = Some(rawData)]
        m2 == IF parsedData # 0
              THEN [m1 EXCEPT !.parsedData = Append(@, parsedData),
                              !.latestParsedData = parsedData,
                              !.totalEvents = @ + 1,
                              !.pendingBatch =
                                  IF m1.useIndexedDB /\ m1.idbEnabled
                                  THEN Append(@, parsedData) ELSE @]
              ELSE m1
        limit == IF m2.useIndexedDB THEN memoryLimit ELSE maxMemoryItems
    IN  [m2 EXCEPT !.rawData = IF Len(@) > limit THEN SliceLast(@, limit) ELSE @,
                   !.parsedData = IF Len(@) > limit THEN SliceLast(@, limit) ELSE @,
                   !.startTime = IF @ = 0 THEN timestamp ELSE @,
                   !.endTime = 0]

\* the clearData reducer
clearData(m) ==
    [m EXCEPT !.rawData = <<>>, !.parsedData = <<>>, !.startTime = 0, !.endTime = 0,
              !.latestRawData = None, !.latestParsedData = 0, !.totalEvents = 0]

\* stopMeasurement.fulfilled
stopMeasurementFulfilled(m, endTime) == [m EXCEPT !.endTime = endTime]

\* selectIsRecording
selectIsRecording(m) == m.startTime # 0 /\ m.endTime = 0

\* lines the serial device delivers in the model: a 7-token reading, a short
\* comment, a comment with six tokens, and a line that is neither
DataLine ==
    <<"1", " ", "d", " ", "2", " ", "3", " ", "4", ".", "5", " ", "6", " ", "7">>

CommentLine == <<"#", " ", "n">>

CommentLine6 == <<"#", " ", "1", " ", "2", " ", "3", " ", "4", " ", "5">>

BadLine == <<"x", " ", "y">>

SampleLines == {DataLine, CommentLine, CommentLine6, BadLine}

\* the host time parseRawData reads in the sink specifications
PcNow == <<"t">>

\* parseRawData of each sample line
ParsedSamples == [ln \in SampleLines |-> parseRawData(ln, PcNow)]

\* the event object behind reference k, given the lines received so far
EventOf(lines, k) == ParsedSamples[lines[k]]

\* the reference processSerialData hands to its reducer for the idx-th line
ParsedRef(ln, idx) == IF IsNull(ParsedSamples[ln]) THEN 0 ELSE idx

----------------------------------------------------------------------------
(* Append file sink: useAutoSave                                           *)

\* fullPath: saveDirectory/<start timestamp><_suffix>.dat, for a fixed directory
\* and a fixed suffix: one path per measurement start time
FilePath(m) == m.startTime

Paths == 1..MaxRecordings

\* most writeFile failures in one behaviour
MaxWriteFailures == 1

\* most changes of the user's file settings in one behaviour
MaxSettingChanges == 1

\* the '#' block createAndWrite writes first when includeComments is on
HeaderText == <<"#", " ", "C", "\n">>

NoFile == [exists |-> FALSE, content |-> <<>>]

FileSettingsInit ==
    [autoSavePath |-> None, includeComments |-> TRUE,
     enabled |-> TRUE, changes |-> 0]

AutoSaveInit == [isFileCreated |-> FALSE, initialIncludeCommentsRef |-> None]

\* what one render of FileControls/useAutoSave sees, with the writes issued so far
Bundle(m, st, hk, ops) ==
    [m |-> m, st |-> st, hk |-> hk, ops |-> ops, lines |-> rxLog, reset |-> FALSE]

\* resetState
resetState(v) ==
    [v EXCEPT !.st.autoSavePath = None,
              !.hk.isFileCreated = FALSE,
              !.hk.initialIncludeCommentsRef = None,
              !.reset = TRUE]

\* createAndWrite up to its first await: capture includeComments, build the
\* header, issue writeFile(fullPath, content, {append: false})
createAndWrite(v) ==
    [v EXCEPT !.hk.initialIncludeCommentsRef = Some(v.st.includeComments),
              !.ops = Append(@, [kind   |-> "create",
                                 path   |-> FilePath(v.m),
                                 text   |-> IF v.st.includeComments
                                            THEN HeaderText ELSE <<>>,
                                 of     |-> 0])]

\* the file creation effect (isDesktop, platformService and saveDirectory are set)
creationEffect(v) ==
    IF v.m.startTime # 0 /\ v.st.enabled /\ ~v.hk.isFileCreated
    THEN createAndWrite(v)
    ELSE IF v.m.startTime = 0 /\ v.hk.isFileCreated THEN resetState(v)
    ELSE v

\* appendData up to its await; idx is the arrival index of the latest line
appendData(v, idx) ==
    LET raw == v.m.latestRawData[1]
        shouldIncludeComments == v.hk.initialIncludeCommentsRef[1]
        dataToWrite ==
            IF v.m.latestParsedData # 0
            THEN formatDataForFile(EventOf(v.lines, v.m.latestParsedData))
            ELSE formatRawDataForFile(raw)
    IN  IF StartsWith(Trim(raw), "#") /\ ~shouldIncludeComments THEN v
        ELSE [v EXCEPT !.ops = Append(@, [kind |-> "append",
                                          path |-> v.st.autoSavePath[1],
                                          text |-> dataToWrite \o <<"\n">>,
                                          of   |-> idx])]

\* the append effect
appendEffect(v, idx) ==
    IF /\ v.st.enabled
       /\ v.st.autoSavePath # None
       /\ v.m.latestRawData # None
       /\ v.hk.isFileCreated
       /\ v.hk.initialIncludeCommentsRef # None
    THEN appendData(v, idx)
    ELSE v

\* dependency list of the creation effect. measChanged: state.measurement was
\* replaced, which gives App a new measurementStartTime object and a new
\* onFileHandleChange function.
creationDepsChanged(a, b, measChanged) ==
    \/ measChanged
    \/ a.st.enabled # b.st.enabled
    \/ a.hk.isFileCreated # b.hk.isFileCreated
    \/ a.st.includeComments # b.st.includeComments

\* dependency list of the append effect
appendDepsChanged(a, b) ==
    \/ a.m.latestRawData # b.m.latestRawData
    \/ a.m.latestParsedData # b.m.latestParsedData
    \/ a.st.enabled # b.st.enabled
    \/ a.st.autoSavePath # b.st.autoSavePath
    \/ a.hk.isFileCreated # b.hk.isFileCreated
    \/ a.st.includeComments # b.st.includeComments

\* the render after a state change a -> b and the effects it runs, in the
\* order the hook declares them
Render(a, b, measChanged, idx) ==
    LET c == IF creationDepsChanged(a, b, measChanged) THEN creationEffect(b) ELSE b
    IN  IF appendDepsChanged(a, b) THEN appendEffect(c, idx) ELSE c

FileInit ==
    /\ measurement = MeasurementInit
    /\ clock = 0
    /\ rxLog = <<>>
    /\ fileSettings = FileSettingsInit
    /\ autoSave = AutoSaveInit
    /\ fileOps = <<>>
    /\ fs = [p \in Paths |-> NoFile]
    /\ sessionLines = {}
    /\ didReset = FALSE
    /\ idleLines = {}
    /\ writeFailures = 0

Current == Bundle(measurement, fileSettings, autoSave, fileOps)

SessionActive(v) == v.st.enabled /\ v.hk.isFileCreated /\ v.st.autoSavePath # None

\* what is remembered of a line received while the file session is active: its
\* arrival index, the session file, and whether it is a comment line that the
\* captured includeComments = false tells the sink to skip
SessionLine(v, idx, ln) ==
    [idx  |-> idx,
     path |-> v.st.autoSavePath[1],
     skip |-> StartsWith(Trim(ln), "#")
              /\ v.hk.initialIncludeCommentsRef = Some(FALSE)]

\* commit the outcome v of a step
Commit(v, lines) ==
    /\ measurement' = v.m
    /\ fileSettings' = v.st
    /\ autoSave' = v.hk
    /\ fileOps' = v.ops
    /\ didReset' = v.reset
    /\ sessionLines' = IF v.reset THEN {} ELSE lines
    /\ idleLines' = IF Len(v.lines) > Len(rxLog) /\ ~SessionActive(Current)
                    THEN idleLines \cup {Len(v.lines)} ELSE idleLines

\* handleDataReceived: processSerialData, then the render it causes
FileReceiveLine(ln) ==
    /\ Len(rxLog) < MaxLines
    /\ LET idx == Len(rxLog) + 1
           ts  == clock + 1
           pd  == ParsedRef(ln, idx)
           b   == [Current EXCEPT !.m = processSerialDataFulfilled(@, ln, pd, ts),
                                   !.lines = Append(@, ln)]
       IN  /\ Commit(Render(Current, b, TRUE, idx),
                     IF SessionActive(Current)
                     THEN sessionLines \cup {SessionLine(Current, idx, ln)}
                     ELSE sessionLines)
           /\ clock' = IF measurement.startTime = 0 THEN ts ELSE clock
           /\ rxLog' = Append(rxLog, ln)
    /\ UNCHANGED <<fs, writeFailures>>
    /\ UNCHANGED codecVars
    /\ UNCHANGED <<remoteVars, restVars>>

\* handleClearData: clearData and setAutoSavePath(null)
FileClearData ==
    /\ clock < MaxRecordings
    /\ measurement.startTime # 0
    /\ LET b == [Current EXCEPT !.m = clearData(@), !.st.autoSavePath = None]
       IN  Commit(Render(Current, b, TRUE, Len(rxLog)), sessionLines)
    /\ UNCHANGED <<clock, rxLog, fs, writeFailures>>
    /\ UNCHANGED codecVars
    /\ UNCHANGED <<remoteVars, restVars>>

\* handleDisconnected: stopMeasurement if a recording runs, then
\* setAutoSavePath(null)
FileDisconnected ==
    /\ LET b == [Current EXCEPT
                   !.m = IF selectIsRecording(@) THEN stopMeasurementFulfilled(@, 1) ELSE @,
                   !.st.autoSavePath = None]
       IN  Commit(Render(Current, b, selectIsRecording(measurement), Len(rxLog)),
                  sessionLines)
    /\ UNCHANGED <<clock, rxLog, fs, writeFailures>>
    /\ UNCHANGED codecVars
    /\ UNCHANGED <<remoteVars, restVars>>

\* the user flips the live includeComments preference
SetIncludeComments ==
    /\ fileSettings.changes < MaxSettingChanges
    /\ LET b == [Current EXCEPT !.st.includeComments = ~@, !.st.changes = @ + 1]
       IN  Commit(Render(Current, b, FALSE, Len(rxLog)), sessionLines)
    /\ UNCHANGED <<clock, rxLog, fs, writeFailures>>
    /\ UNCHANGED codecVars
    /\ UNCHANGED <<remoteVars, restVars>>

\* handleAutoSaveToggle: setAutoSaveEnabled(isChecked); setEnabled(isChecked)
SetAutoSaveEnabled ==
    /\ fileSettings.changes < MaxSettingChanges
    /\ LET on == ~fileSettings.enabled
           b0 == [Current EXCEPT !.st.enabled = on, !.st.changes = @ + 1]
           b  == IF on THEN b0 ELSE resetState(b0)
       IN  Commit(Render(Current, b, FALSE, Len(rxLog)), sessionLines)
    /\ UNCHANGED <<clock, rxLog, fs, writeFailures>>
    /\ UNCHANGED codecVars
    /\ UNCHANGED <<remoteVars, restVars>>

RemoveAt(s, i) == SubSeq(s, 1, i - 1) \o SubSeq(s, i + 1, Len(s))

\* TauriPlatformService.writeFile -> writeTextFile(path, content, {append})
writeTextFile(files, op) ==
    [files EXCEPT ![op.path] =
        [exists  |-> TRUE,
         content |-> (IF op.kind = "append" THEN @.content ELSE <<>>)
                       \o (IF op.text = <<>> THEN <<>>
                           ELSE <<[text |-> op.text, of |-> op.of]>>)]]

\* a pending writeFile of createAndWrite resolves: the file is written, then
\* setAutoSavePath(fullPath), onFileHandleChange(fullPath), setIsFileCreated(true)
CreateWritten(i) ==
    /\ i \in DOMAIN fileOps
    /\ fileOps[i].kind = "create"
    /\ LET a == [Current EXCEPT !.ops = RemoveAt(@, i)]
           b == [a EXCEPT !.st.autoSavePath = Some(fileOps[i].path),
                          !.hk.isFileCreated = TRUE]
       IN  Commit(Render(a, b, FALSE, Len(rxLog)), sessionLines)
    /\ fs' = writeTextFile(fs, fileOps[i])
    /\ UNCHANGED <<clock, rxLog, writeFailures>>
    /\ UNCHANGED codecVars
    /\ UNCHANGED <<remoteVars, restVars>>

\* a pending writeFile of appendData resolves: the text is appended
AppendWritten(i) ==
    /\ i \in DOMAIN fileOps
    /\ fileOps[i].kind = "append"
    /\ Commit([Current EXCEPT !.ops = RemoveAt(@, i)], sessionLines)
    /\ fs' = writeTextFile(fs, fileOps[i])
    /\ UNCHANGED <<clock, rxLog, writeFailures>>
    /\ UNCHANGED codecVars
    /\ UNCHANGED <<remoteVars, restVars>>

\* a pending writeFile rejects: the catch block reports the error and calls
\* resetState
WriteFailed(i) ==
    /\ i \in DOMAIN fileOps
    /\ writeFailures < MaxWriteFailures
    /\ LET a == [Current EXCEPT !.ops = RemoveAt(@, i)]
       IN  Commit(Render(a, resetState(a), FALSE, Len(rxLog)), sessionLines)
    /\ writeFailures' = writeFailures + 1
    /\ UNCHANGED <<clock, rxLog, fs>>
    /\ UNCHANGED codecVars
    /\ UNCHANGED <<remoteVars, restVars>>

FileNext ==
    \/ \E ln \in SampleLines : FileReceiveLine(ln)
    \/ FileClearData
    \/ FileDisconnected
    \/ SetIncludeComments
    \/ SetAutoSaveEnabled
    \/ \E i \in DOMAIN fileOps : CreateWritten(i)
    \/ \E i \in DOMAIN fileOps : AppendWritten(i)
    \/ \E i \in DOMAIN fileOps : WriteFailed(i)

----------------------------------------------------------------------------
(* Remote sink: OnlineDataService                                          *)

\* OnlineDataService.maxRetries
maxRetries == 3

\* a new OnlineDataService(config): no token, not connected (authToken is
\* modelled as "a token is held")
NewService == [authToken |-> FALSE, isConnected |-> FALSE, retryCount |-> 0]

\* what the server answers to one fetch: 2xx, 401, or anything else (another
\* status, a timeout, a network error)
Responses == {"ok", "401", "err"}

\* most fetches one uploadData call is followed through; a fetch after the
\* last scripted answer fails
MaxResponses == 3

Scripts == [1..MaxResponses -> Responses]

NextResponse(sc) == IF sc = <<>> THEN "err" ELSE Head(sc)

RestResponses(sc) == IF sc = <<>> THEN <<>> ELSE Tail(sc)

\* OnlineDataService.login
login(s, sc) ==
    IF NextResponse(sc) = "ok"
    THEN [ok |-> TRUE,
          svc |-> [s EXCEPT !.authToken = TRUE, !.isConnected = TRUE, !.retryCount = 0],
          rest |-> RestResponses(sc)]
    ELSE [ok |-> FALSE, svc |-> [s EXCEPT !.isConnected = FALSE],
          rest |-> RestResponses(sc)]

\* OnlineDataService.handleTokenExpired: refresh, or log in again
handleTokenExpired(s, sc) ==
    IF NextResponse(sc) = "ok"
    THEN [ok |-> TRUE, svc |-> [s EXCEPT !.authToken = TRUE], rest |-> RestResponses(sc)]
    ELSE login(s, RestResponses(sc))

RECURSIVE uploadData(_, _)
\* OnlineDataService.uploadData; posted: the server stored the event
uploadData(s, sc) ==
    LET l == IF ~s.authToken THEN login(s, sc) ELSE [ok |-> TRUE, svc |-> s, rest |-> sc]
    IN  IF ~l.ok THEN [ok |-> FALSE, svc |-> l.svc, rest |-> l.rest, posted |-> FALSE]
        ELSE IF NextResponse(l.rest) = "ok"
        THEN [ok |-> TRUE, svc |-> [l.svc EXCEPT !.retryCount = 0],
              rest |-> RestResponses(l.rest), posted |-> TRUE]
        ELSE IF NextResponse(l.rest) = "401"
        THEN LET h == handleTokenExpired(l.svc, RestResponses(l.rest))
             IN  IF h.ok THEN uploadData(h.svc, h.rest)
                 ELSE [ok |-> FALSE, svc |-> h.svc, rest |-> h.rest, posted |-> FALSE]
        ELSE [ok |-> FALSE, svc |-> l.svc, rest |-> RestResponses(l.rest),
              posted |-> FALSE]

\* the outcomes uploadData can have on service s, over all server behaviours
UploadOutcomes(s) ==
    {[ok |-> r.ok, svc |-> r.svc, posted |-> r.posted] :
        r \in {uploadData(s, sc) : sc \in Scripts}}

\* OnlineDataService.disconnect
serviceDisconnect(s) ==
    [s EXCEPT !.authToken = FALSE, !.isConnected = FALSE, !.retryCount = 0]

\* one turn of the loop of OnlineDataService.uploadDataBatch on a thunk in
\* flight u, given the outcome r of uploadData for u.dataArray[u.idx]; the
\* backoff delay before retryCount++ is not separated from the failure
uploadDataBatchTurn(u, r) ==
    LET stop == ~r.ok /\ r.svc.retryCount >= maxRetries
    IN  [u   |-> [u EXCEPT !.success = IF r.ok THEN @ + 1 ELSE @,
                           !.failed  = IF r.ok THEN @ ELSE @ + 1,
                           !.idx     = @ + 1],
         svc |-> IF r.ok \/ stop THEN r.svc
                 ELSE [r.svc EXCEPT !.retryCount = @ + 1],
         finished |-> stop \/ u.idx = Len(u.dataArray)]

----------------------------------------------------------------------------
(* Remote sink: onlineDataSlice                                            *)

\* initialState.maxQueueSize
InitialMaxQueueSize == 1000

\* initialState.batchSize
InitialBatchSize == 10

\* initialState of onlineDataSlice (statistics, lastError, retryCount,
\* isConnecting and uploadInterval, which no decision reads, are not modelled;
\* config is modelled as "a config is set")
OnlineDataInit ==
    [isEnabled      |-> FALSE,
     hasConfig      |-> FALSE,
     isConnected    |-> FALSE,
     queuedData     |-> <<>>,
     maxQueueSize   |-> InitialMaxQueueSize,
     batchSize      |-> InitialBatchSize,
     pendingUploads |-> 0,
     isUploading    |-> FALSE]

\* the setEnabled reducer
setEnabled(od, payload) ==
    IF payload THEN [od EXCEPT !.isEnabled = TRUE]
    ELSE [od EXCEPT !.isEnabled = FALSE, !.isConnected = FALSE, !.queuedData = <<>>]

\* the setConfig reducer
setConfig(od) == [od EXCEPT !.hasConfig = TRUE, !.isConnected = FALSE]

\* the queueData reducer
queueData(od, data) ==
    IF ~od.isEnabled THEN od
    ELSE LET q == Append(od.queuedData, data)
         IN  [od EXCEPT !.queuedData =
                 IF Len(q) > od.maxQueueSize THEN SliceLast(q, od.maxQueueSize) ELSE q]

\* the setBatchSettings reducer; a payload field that is absent is <<>>
setBatchSettings(od, payload) ==
    LET od1 == IF payload.batchSize # None
               THEN [od EXCEPT !.batchSize = payload.batchSize[1]] ELSE od
    IN  IF payload.maxQueueSize # None
        THEN [od1 EXCEPT
                !.maxQueueSize = payload.maxQueueSize[1],
                !.queuedData = IF Len(@) > payload.maxQueueSize[1]
                               THEN SliceLast(@, payload.maxQueueSize[1]) ELSE @]
        ELSE od1

\* a settlement that counts down but never clears isUploading
uploadSettled_sticky(od) ==
    LET n == IF od.pendingUploads - 1 > 0 THEN od.pendingUploads - 1 ELSE 0
    IN  [od EXCEPT !.pendingUploads = n]

\* pendingUploads -= 1 (not below 0), isUploading off at 0: the common head of
\* the fulfilled and rejected reducers
uploadSettled(od) ==
    LET n == IF od.pendingUploads - 1 > 0 THEN od.pendingUploads - 1 ELSE 0
    IN  [od EXCEPT !.pendingUploads = n, !.isUploading = IF n = 0 THEN FALSE ELSE @]

\* uploadDataOnline.pending and uploadDataBatch.pending
uploadPending(od) == [od EXCEPT !.pendingUploads = @ + 1, !.isUploading = TRUE]

\* initializeOnlineService.pending (isConnecting and lastError only)
initializePending(od) == od

\* initializeOnlineService.fulfilled: login and setup succeeded on the thunk's
\* own service
initializeFulfilled(od) ==
    [od EXCEPT !.hasConfig = TRUE, !.isConnected = TRUE]

\* initializeOnlineService.rejected
initializeRejected(od) == [od EXCEPT !.isConnected = FALSE]

\* uploadDataOnline.fulfilled
uploadDataOnlineFulfilled(od, connectionStatus) ==
    [uploadSettled(od) EXCEPT !.isConnected = connectionStatus.isConnected]

\* uploadDataOnline.rejected
uploadDataOnlineRejected(od) == uploadSettled(od)

\* uploadDataBatch.fulfilled
uploadDataBatchFulfilled(od, results, connectionStatus) ==
    [uploadSettled(od) EXCEPT
        !.isConnected = connectionStatus.isConnected,
        !.queuedData = SliceFrom(@, results.success + results.failed)]

\* selectIsOnlineReadyToUpload
selectIsOnlineReadyToUpload(od) ==
    od.isEnabled /\ od.isConnected /\ Len(od.queuedData) > 0 /\ ~od.isUploading

\* selectOnlineDataBatch
selectOnlineDataBatch(od) ==
    SubSeq(od.queuedData, 1,
           IF od.batchSize < Len(od.queuedData) THEN od.batchSize ELSE Len(od.queuedData))

\* selectOnlineServiceConfig, as "a config is selected"
selectOnlineServiceConfig(od) == od.isEnabled /\ od.hasConfig

----------------------------------------------------------------------------
(* Remote sink: useOnlineAutoUpload                                        *)

\* most uploadDataOnline/uploadDataBatch thunks in flight at once
MaxUploads == 2

\* most initializeOnlineService thunks in flight at once
MaxInits == 1

\* most pending setTimeout(() => syncOfflineData(), 1000) at once
MaxSyncs == 1

\* most user changes of the remote settings (enable, config, connect) and of
\* the batch settings in one behaviour
MaxRemoteChanges == 2

MaxBatchSettingChanges == 1

\* most upload thunks started in one behaviour
MaxThunks == 2

\* service objects alive at once: the one in serviceRef and those held by
\* thunks in flight
ServiceIds == 1..(MaxUploads + 1)

\* renders followed after one state change
MaxRenders == 4

\* the event references in a queue
Uids(q) == {q[i] : i \in DOMAIN q}

HookInit == [serviceRef |-> 0, previousConnectedRef |-> FALSE]

GhostInit ==
    [accepted |-> {}, offline |-> {}, received |-> {}, evicted |-> {},
     enq |-> [k \in 1..MaxLines |-> 0], batchEnd |-> None,
     changes |-> 0, batchChanges |-> 0, thunks |-> 0, overflow |-> FALSE]

\* what one render of useOnlineAutoUpload closes over
Snap(R) ==
    [isEnabled        |-> R.od.isEnabled,
     config           |-> selectOnlineServiceConfig(R.od),
     isConnected      |-> R.od.isConnected,
     isRecording      |-> selectIsRecording(R.m),
     latestParsedData |-> R.m.latestParsedData,
     batchSize        |-> R.od.batchSize,
     isReadyToUpload  |-> selectIsOnlineReadyToUpload(R.od),
     batchData        |-> selectOnlineDataBatch(R.od),
     od               |-> R.od]

ServicesInUse(R) ==
    {R.hk.serviceRef} \cup {R.uploads[i].service : i \in DOMAIN R.uploads}

\* dispatch(queueData(data)), with the bookkeeping of what was pushed (counted
\* up to 2) and what the overflow discarded
Enqueue(R, data) ==
    LET od2 == queueData(R.od, data)
    IN  IF ~R.od.isEnabled THEN R
        ELSE [R EXCEPT !.od = od2,
                       !.g.enq[data] = IF @ < 2 THEN @ + 1 ELSE @,
                       !.g.evicted = @ \cup ((Uids(R.od.queuedData) \cup {data})
                                             \ Uids(od2.queuedData))]

\* dispatch(uploadDataBatch({dataArray, service: serviceRef.current})) up to
\* the first await
StartBatch(R, dataArray) ==
    [R EXCEPT !.od = uploadPending(@),
              !.g.thunks = @ + 1,
              !.uploads = Append(@, [kind |-> "batch", service |-> R.hk.serviceRef,
                                     dataArray |-> dataArray, idx |-> 1,
                                     success |-> 0, failed |-> 0])]

\* initializeService
initializeService(rs, R) ==
    IF ~rs.config \/ R.hk.serviceRef # 0 THEN R
    ELSE LET free == ServiceIds \ ServicesInUse(R)
             id   == IF free = {} THEN 1 ELSE CHOOSE i \in free : \A j \in free : i <= j
         IN  [R EXCEPT !.hk.serviceRef = id,
                       !.services[id] = NewService,
                       !.od = initializePending(@),
                       !.inits = Append(@, [byHook |-> TRUE]),
                       !.g.overflow = @ \/ free = {}]

\* cleanupService (the interval is derived state here)
cleanupService(R) ==
    IF R.hk.serviceRef = 0 THEN R
    ELSE [R EXCEPT !.services[R.hk.serviceRef] = serviceDisconnect(@),
                   !.hk.serviceRef = 0]

\* the effect that creates or drops the service
serviceEffect(rs, R) ==
    IF rs.isEnabled /\ rs.config /\ R.hk.serviceRef = 0 THEN initializeService(rs, R)
    ELSE IF ~rs.isEnabled /\ R.hk.serviceRef # 0 THEN cleanupService(R)
    ELSE R

\* the effect that schedules syncOfflineData when the connection comes back
reconnectEffect(rs, R) ==
    LET wasOffline == ~R.hk.previousConnectedRef
        R1 == IF wasOffline /\ rs.isConnected /\ Len(rs.batchData) > 0
              THEN [R EXCEPT !.syncs = Append(@, [isReadyToUpload |-> rs.isReadyToUpload,
                                                  batchData |-> rs.batchData])]
              ELSE R
    IN  [R1 EXCEPT !.hk.previousConnectedRef = rs.isConnected]

\* uploadDataInstantly up to its await
uploadDataInstantly(rs, R, data) ==
    IF R.hk.serviceRef = 0 \/ ~rs.isConnected THEN R
    ELSE [R EXCEPT !.od = uploadPending(@),
                   !.g.thunks = @ + 1,
                   !.uploads = Append(@, [kind |-> "instant", service |-> R.hk.serviceRef,
                                          dataArray |-> <<data>>, idx |-> 1,
                                          success |-> 0, failed |-> 0])]

\* the effect that routes the latest event
eventEffect(rs, R) ==
    IF ~rs.isEnabled \/ ~rs.isRecording \/ rs.latestParsedData = 0 THEN R
    ELSE IF ~rs.isConnected THEN Enqueue(R, rs.latestParsedData)
    ELSE IF rs.batchSize = 1 THEN uploadDataInstantly(rs, R, rs.latestParsedData)
    ELSE Enqueue(R, rs.latestParsedData)

\* dependency lists of the three effects, between the previous render ps and
\* this one rs; cfgChanged: the store holds a new config object
serviceDepsChanged(ps, rs, cfgChanged) ==
    cfgChanged \/ ps.isEnabled # rs.isEnabled \/ ps.config # rs.config

reconnectDepsChanged(ps, rs) == ps.od # rs.od

eventDepsChanged(ps, rs) ==
    \/ ps.isEnabled # rs.isEnabled
    \/ ps.isRecording # rs.isRecording
    \/ ps.isConnected # rs.isConnected
    \/ ps.latestParsedData # rs.latestParsedData
    \/ ps.batchSize # rs.batchSize

RECURSIVE HookRender(_, _, _, _)
\* the renders after a state change, each running the effects whose
\* dependencies changed, until the store is stable
HookRender(ps, R, cfgChanged, fuel) ==
    Then(Snap(R), LAMBDA rs :
    Then(IF serviceDepsChanged(ps, rs, cfgChanged) THEN serviceEffect(rs, R) ELSE R,
         LAMBDA a :
    Then(IF reconnectDepsChanged(ps, rs) THEN reconnectEffect(rs, a) ELSE a,
         LAMBDA b :
    Then(IF eventDepsChanged(ps, rs) THEN eventEffect(rs, b) ELSE b,
         LAMBDA c :
    IF fuel = 0 \/ Snap(c) = rs THEN c ELSE HookRender(rs, c, FALSE, fuel - 1)))))

\* service objects nothing refers to any more are forgotten
Normalize(R) ==
    [R EXCEPT !.services = [i \in ServiceIds |->
                               IF i \in ServicesInUse(R) THEN R.services[i] ELSE NewService]]

RemoteInit ==
    /\ onlineData = OnlineDataInit
    /\ hook = HookInit
    /\ services = [i \in ServiceIds |-> NewService]
    /\ uploads = <<>>
    /\ inits = <<>>
    /\ syncs = <<>>
    /\ ghost = GhostInit

CurrentRemote ==
    [od |-> onlineData, m |-> measurement, hk |-> hook, services |-> services,
     uploads |-> uploads, inits |-> inits, syncs |-> syncs,
     g |-> [ghost EXCEPT !.batchEnd = None]]

\* the state after a handler turned R0 into R1 and the hook rendered
RemoteCommit(R0, R1, cfgChanged) ==
    \E Rh \in {R1} : \E R \in {Normalize(HookRender(Snap(R0), Rh, cfgChanged, MaxRenders))} :
        /\ Len(R.uploads) <= MaxUploads
        /\ Len(R.inits) <= MaxInits
        /\ Len(R.syncs) <= MaxSyncs
        /\ ~R.g.overflow
        /\ R.g.thunks <= MaxThunks
        /\ onlineData' = R.od
        /\ measurement' = R.m
        /\ hook' = R.hk
        /\ services' = R.services
        /\ uploads' = R.uploads
        /\ inits' = R.inits
        /\ syncs' = R.syncs
        /\ ghost' = R.g

RemoteFrame ==
    /\ UNCHANGED <<fileSettings, autoSave, fileOps, fs, sessionLines, didReset,
                   idleLines, writeFailures>>
    /\ UNCHANGED codecVars
    /\ UNCHANGED restVars

----------------------------------------------------------------------------
(* Remote sink: the handlers                                               *)

\* the lines the serial device delivers in the remote sink specification:
\* readings that parse
RemoteLines == {DataLine}

\* handleDataReceived: processSerialData, then the renders it causes
RemoteReceiveLine(ln) ==
    /\ Len(rxLog) < MaxLines
    /\ LET idx == Len(rxLog) + 1
           ts  == clock + 1
           pd  == ParsedRef(ln, idx)
           R0  == CurrentRemote
           R1  == [R0 EXCEPT
                     !.m = processSerialDataFulfilled(@, ln, pd, ts),
                     !.g.accepted = IF pd # 0 /\ R0.od.isEnabled
                                    THEN @ \cup {idx} ELSE @,
                     !.g.offline = IF pd # 0 /\ R0.od.isEnabled /\ ~R0.od.isConnected
                                   THEN @ \cup {idx} ELSE @]
       IN  RemoteCommit(R0, R1, FALSE)
    /\ clock' = IF measurement.startTime = 0 THEN clock + 1 ELSE clock
    /\ rxLog' = Append(rxLog, ln)
    /\ RemoteFrame

\* handleDisconnected while a recording runs: stopMeasurement (without a
\* recording the handler changes nothing the remote sink reads)
RemoteDisconnected ==
    /\ selectIsRecording(measurement)
    /\ LET R0 == CurrentRemote
       IN  RemoteCommit(R0, [R0 EXCEPT !.m = stopMeasurementFulfilled(@, 1)], FALSE)
    /\ UNCHANGED <<clock, rxLog>>
    /\ RemoteFrame

\* handleToggleEnabled: setEnabled(!isEnabled)
SetEnabled ==
    /\ ghost.changes < MaxRemoteChanges
    /\ LET R0 == CurrentRemote
           R1 == [R0 EXCEPT !.od = setEnabled(@, ~@.isEnabled), !.g.changes = @ + 1]
       IN  RemoteCommit(R0, R1, FALSE)
    /\ UNCHANGED <<clock, rxLog>>
    /\ RemoteFrame

\* handleConfigChange: setConfig(newConfig)
SetConfig ==
    /\ ghost.changes < MaxRemoteChanges
    /\ LET R0 == CurrentRemote
           R1 == [R0 EXCEPT !.od = setConfig(@), !.g.changes = @ + 1]
       IN  RemoteCommit(R0, R1, TRUE)
    /\ UNCHANGED <<clock, rxLog>>
    /\ RemoteFrame

\* handleConnect: dispatch(initializeOnlineService(newConfig)) from the
\* settings form
Connect ==
    /\ ghost.changes < MaxRemoteChanges
    /\ LET R0 == CurrentRemote
           R1 == [R0 EXCEPT !.od = initializePending(@),
                            !.inits = Append(@, [byHook |-> FALSE]),
                            !.g.changes = @ + 1]
       IN  RemoteCommit(R0, R1, FALSE)
    /\ UNCHANGED <<clock, rxLog>>
    /\ RemoteFrame

\* payloads of setBatchSettings in the model: one field each
BatchSizes == {1, 2}

QueueSizes == {0, 1}

BatchSettingsPayloads ==
    {[batchSize |-> Some(b), maxQueueSize |-> None] : b \in BatchSizes}
    \cup {[batchSize |-> None, maxQueueSize |-> Some(n)] : n \in QueueSizes}

\* dispatch(setBatchSettings(payload))
SetBatchSettings(payload) ==
    /\ ghost.batchChanges < MaxBatchSettingChanges
    /\ LET R0 == CurrentRemote
           od2 == setBatchSettings(R0.od, payload)
           R1 == [R0 EXCEPT !.od = od2,
                            !.g.evicted = @ \cup (Uids(R0.od.queuedData)
                                                  \ Uids(od2.queuedData)),
                            !.g.batchChanges = @ + 1]
       IN  RemoteCommit(R0, R1, FALSE)
    /\ UNCHANGED <<clock, rxLog>>
    /\ RemoteFrame

\* an initializeOnlineService thunk settles: login and setupMeasurement both
\* succeeded (ok), or one of them failed; initializeService's catch drops the
\* hook's service
InitializeDone(i, ok) ==
    /\ i \in DOMAIN inits
    /\ LET R0 == [CurrentRemote EXCEPT !.inits = RemoveAt(@, i)]
           R1 == IF ok THEN [R0 EXCEPT !.od = initializeFulfilled(@)]
                 ELSE [R0 EXCEPT !.od = initializeRejected(@),
                                 !.hk.serviceRef = IF inits[i].byHook THEN 0 ELSE @]
       IN  RemoteCommit(CurrentRemote, R1, FALSE)
    /\ UNCHANGED <<clock, rxLog>>
    /\ RemoteFrame

\* the interval fires and the upload interval has passed: uploadBatchData
TimerTick ==
    /\ onlineData.isEnabled /\ onlineData.isConnected /\ selectIsRecording(measurement)
    /\ hook.serviceRef # 0
    /\ selectIsOnlineReadyToUpload(onlineData)
    /\ LET R0 == CurrentRemote
       IN  RemoteCommit(R0, StartBatch(R0, selectOnlineDataBatch(R0.od)), FALSE)
    /\ UNCHANGED <<clock, rxLog>>
    /\ RemoteFrame

\* a scheduled syncOfflineData runs, with the isReadyToUpload and batchData of
\* the render that scheduled it and the serviceRef of now
SyncFire(i) ==
    /\ i \in DOMAIN syncs
    /\ LET R0 == [CurrentRemote EXCEPT !.syncs = RemoveAt(@, i)]
           R1 == IF R0.hk.serviceRef = 0 \/ ~syncs[i].isReadyToUpload
                    \/ Len(syncs[i].batchData) = 0
                 THEN R0 ELSE StartBatch(R0, syncs[i].batchData)
       IN  RemoteCommit(CurrentRemote, R1, FALSE)
    /\ UNCHANGED <<clock, rxLog>>
    /\ RemoteFrame

\* uploadDataBatch makes one uploadData call for its next event, with outcome
\* r; after the last one the thunk is fulfilled
BatchStep(i, r) ==
    /\ i \in DOMAIN uploads
    /\ uploads[i].kind = "batch"
    /\ LET u  == uploads[i]
           t  == uploadDataBatchTurn(u, r)
           R0 == CurrentRemote
           Rr == [R0 EXCEPT !.services[u.service] = t.svc,
                            !.g.received = IF r.posted
                                           THEN @ \cup {u.dataArray[u.idx]} ELSE @]
           R1 == IF ~t.finished THEN [Rr EXCEPT !.uploads[i] = t.u]
                 ELSE [Rr EXCEPT
                         !.uploads = RemoveAt(@, i),
                         !.od = uploadDataBatchFulfilled(
                                   @, [success |-> t.u.success, failed |-> t.u.failed],
                                   t.svc),
                         !.g.batchEnd = Some(
                             [success |-> t.u.success, failed |-> t.u.failed,
                              dataArray |-> u.dataArray,
                              before |-> R0.od.queuedData,
                              after |-> SliceFrom(R0.od.queuedData,
                                                  t.u.success + t.u.failed)])]
       IN  RemoteCommit(R0, R1, FALSE)
    /\ UNCHANGED <<clock, rxLog>>
    /\ RemoteFrame

\* the uploadData call of an uploadDataOnline thunk settles with outcome r:
\* fulfilled, or rejected and the event queued by uploadDataInstantly's catch
InstantDone(i, r) ==
    /\ i \in DOMAIN uploads
    /\ uploads[i].kind = "instant"
    /\ LET u  == uploads[i]
           R0 == CurrentRemote
           Rr == [R0 EXCEPT !.services[u.service] = r.svc,
                            !.uploads = RemoveAt(@, i),
                            !.g.received = IF r.posted
                                           THEN @ \cup {u.dataArray[1]} ELSE @]
           R1 == IF r.ok THEN [Rr EXCEPT !.od = uploadDataOnlineFulfilled(@, r.svc)]
                 ELSE Enqueue([Rr EXCEPT !.od = uploadDataOnlineRejected(@)],
                              u.dataArray[1])
       IN  RemoteCommit(R0, R1, FALSE)
    /\ UNCHANGED <<clock, rxLog>>
    /\ RemoteFrame

Next ==
    \/ \E ln \in RemoteLines : RemoteReceiveLine(ln)
    \/ RemoteDisconnected
    \/ SetEnabled
    \/ SetConfig
    \/ Connect
    \/ \E payload \in BatchSettingsPayloads : SetBatchSettings(payload)
    \/ \E i \in DOMAIN inits, ok \in BOOLEAN : InitializeDone(i, ok)
    \/ TimerTick
    \/ \E i \in DOMAIN syncs : SyncFire(i)
    \/ \E i \in DOMAIN uploads :
          \E r \in UploadOutcomes(services[uploads[i].service]) : BatchStep(i, r)
    \/ \E i \in DOMAIN uploads :
          \E r \in UploadOutcomes(services[uploads[i].service]) : InstantDone(i, r)


----------------------------------------------------------------------------
(* OnlineDataService followed request by request                           *)

\* OnlineDataService.baseRetryDelay
baseRetryDelay == 1000

\* uploadDataBatch calls that run on one service object at once
MaxCalls == 2

Calls == 1..MaxCalls

\* most events in one dataArray
MaxBatch == 3

\* most upload requests followed within one uploadData call
MaxPosts == 3

\* values of Math.random() * 1000 in the model: the two ends of [0, 1000)
Jitters == {0, 999}

RECURSIVE Pow2(_)
Pow2(k) == IF k = 0 THEN 1 ELSE 2 * Pow2(k - 1)

\* the delay exponentialBackoff waits on service s
exponentialBackoff(s, jitter) == baseRetryDelay * Pow2(s.retryCount) + jitter

\* a call slot: pc is where the call waits ("idle": no call), left the events
\* of dataArray not yet done, posts and refreshes the upload requests and the
\* handleTokenExpired calls made so far by the uploadData call of the current
\* event, lastDelay the last backoff delay of this batch (0: none yet)
IdleCall == [pc |-> "idle", left |-> 0, posts |-> 0, refreshes |-> 0, lastDelay |-> 0]

CallInit ==
    /\ svc = NewService
    /\ calls = [c \in Calls |-> IdleCall]

\* uploadData up to its first await: login() without a token, else the POST
Enter(s, k) == [k EXCEPT !.pc = IF ~s.authToken THEN "login" ELSE "post"]

\* the loop of uploadDataBatch goes on to its next event, or returns
NextEvent(s, k) ==
    IF k.left = 1 THEN IdleCall
    ELSE Enter(s, [k EXCEPT !.left = @ - 1, !.posts = 0, !.refreshes = 0])

\* uploadData returned false: failed++, then break at the retry ceiling or
\* start exponentialBackoff
Failed(s, k, jitter) ==
    IF s.retryCount >= maxRetries THEN IdleCall
    ELSE [k EXCEPT !.pc = "backoff", !.lastDelay = exponentialBackoff(s, jitter)]

CallFrame ==
    /\ UNCHANGED codecVars
    /\ UNCHANGED fileVars
    /\ UNCHANGED remoteVars
    /\ UNCHANGED storeVars
    /\ UNCHANGED queryVars
    /\ UNCHANGED connectVars
    /\ UNCHANGED cadenceVars

\* service.uploadDataBatch(dataArray) is called with n events
BatchStart(c, n) ==
    /\ calls[c].pc = "idle"
    /\ calls' = [calls EXCEPT ![c] = Enter(svc, [IdleCall EXCEPT !.left = n])]
    /\ UNCHANGED svc
    /\ CallFrame

\* the login() awaited at the head of uploadData settles
LoginDone(c, resp, jitter) ==
    /\ calls[c].pc = "login"
    /\ \E l \in {login(svc, <<resp>>)} :
          /\ svc' = l.svc
          /\ calls' = [calls EXCEPT ![c] = IF l.ok THEN [@ EXCEPT !.pc = "post"]
                                           ELSE Failed(l.svc, @, jitter)]
    /\ CallFrame

\* the upload request settles: stored, 401, or any other failure
PostDone(c, resp, jitter) ==
    /\ calls[c].pc = "post"
    /\ calls[c].posts < MaxPosts
    /\ \E k \in {[calls[c] EXCEPT !.posts = @ + 1]} :
          IF resp = "ok"
          THEN /\ svc' = [svc EXCEPT !.retryCount = 0]
               /\ calls' = [calls EXCEPT ![c] = NextEvent(svc', k)]
          ELSE IF resp = "401"
          THEN /\ svc' = svc
               /\ calls' = [calls EXCEPT ![c] = [k EXCEPT !.pc = "refresh"]]
          ELSE /\ svc' = svc
               /\ calls' = [calls EXCEPT ![c] = Failed(svc, k, jitter)]
    /\ CallFrame

\* handleTokenExpired settles (refresh answered r1, the re-login after a failed
\* refresh r2); on success uploadData calls itself for the same event
RefreshDone(c, r1, r2, jitter) ==
    /\ calls[c].pc = "refresh"
    /\ \E h \in {handleTokenExpired(svc, <<r1, r2>>)} :
       \E k \in {[calls[c] EXCEPT !.refreshes = @ + 1]} :
          /\ svc' = h.svc
          /\ calls' = [calls EXCEPT ![c] = IF h.ok THEN Enter(h.svc, k)
                                           ELSE Failed(h.svc, k, jitter)]
    /\ CallFrame

\* the backoff delay is over: retryCount++, then the next event
BackoffDone(c) ==
    /\ calls[c].pc = "backoff"
    /\ svc' = [svc EXCEPT !.retryCount = @ + 1]
    /\ calls' = [calls EXCEPT ![c] = NextEvent(svc', @)]
    /\ CallFrame

ServiceNext ==
    \/ \E c \in Calls, n \in 1..MaxBatch : BatchStart(c, n)
    \/ \E c \in Calls, resp \in Responses, jitter \in Jitters : LoginDone(c, resp, jitter)
    \/ \E c \in Calls, resp \in Responses, jitter \in Jitters : PostDone(c, resp, jitter)
    \/ \E c \in Calls, r1 \in Responses, r2 \in Responses, jitter \in Jitters :
          RefreshDone(c, r1, r2, jitter)
    \/ \E c \in Calls : BackoffDone(c)

----------------------------------------------------------------------------
(* Embedded store: IndexedDBDataService                                    *)

\* most sessions created in one behaviour
MaxSessions == 2

\* most items the measurementData store holds in one behaviour
MaxStored == 4

\* most events handed to one storeData call
MaxStoreBatch == 2

\* the session ids generateSessionId has produced so far are 1, 2, ...
SessionIds == 1..MaxSessions

\* a session id generateSessionId never produces
MissingSession == MaxSessions + 1

\* the object stores after onupgradeneeded: no session, no data
IdbInit == [sessions |-> <<>>, measurementData |-> <<>>]

\* generateSessionId: a fresh id
generateSessionId(db) == Len(db.sessions) + 1

\* the items of the measurementData store that carry sessionId
StoredOf(db, sessionId) ==
    {i \in DOMAIN db.measurementData : db.measurementData[i].sessionId = sessionId}

\* the events stored under any session id
StoredEvents(db) == {db.measurementData[i].event : i \in DOMAIN db.measurementData}

\* createSession: store.add of a record with isActive true and totalEvents 0;
\* ok is whether the add request succeeds
createSession(db, ok) ==
    IF ok
    THEN [db        |-> [db EXCEPT !.sessions =
                                Append(@, [isActive |-> TRUE, totalEvents |-> 0])],
          ok        |-> TRUE,
          sessionId |-> generateSessionId(db)]
    ELSE [db |-> db, ok |-> FALSE, sessionId |-> 0]

\* endSession: get, then put with isActive false; rejects when the record is
\* missing or a request fails
endSession(db, sessionId, ok) ==
    IF ok /\ sessionId \in DOMAIN db.sessions
    THEN [db |-> [db EXCEPT !.sessions[sessionId].isActive = FALSE], ok |-> TRUE]
    ELSE [db |-> db, ok |-> FALSE]

\* getSession: the record, or null
getSession(db, sessionId) ==
    IF sessionId \in DOMAIN db.sessions
    THEN Some([sessionId   |-> sessionId,
               isActive    |-> db.sessions[sessionId].isActive,
               totalEvents |-> db.sessions[sessionId].totalEvents])
    ELSE None

\* what the requests of one storeData transaction do
StoreOutcomes == {"ok", "addError", "putError"}

\* storeData: nothing for an empty array; otherwise one readwrite transaction
\* that adds every item, then reads the session and puts it back with
\* totalEvents raised.  A failed request aborts the transaction.  When the
\* session record is missing the promise is rejected after the adds have
\* succeeded and nothing aborts the transaction, so it commits the items.
storeData(db, sessionId, data, outcome) ==
    LET added == [db EXCEPT !.measurementData =
                      @ \o [i \in DOMAIN data |->
                               [sessionId |-> sessionId, event |-> data[i]]]]
    IN  IF data = <<>> THEN [db |-> db, ok |-> TRUE]
        ELSE IF outcome = "addError" THEN [db |-> db, ok |-> FALSE]
        ELSE IF sessionId \notin DOMAIN db.sessions THEN [db |-> added, ok |-> FALSE]
        ELSE IF outcome = "putError" THEN [db |-> db, ok |-> FALSE]
        ELSE [db |-> [added EXCEPT !.sessions[sessionId].totalEvents = @ + Len(data)],
              ok |-> TRUE]

\* history of the store: made counts the events handed to storeData by direct
\* calls, failed holds the events of the storeData calls that were rejected,
\* accepted the events pushed to pendingBatch while a session was current and
\* active, closed the sessions whose handleEndSession has run to its end,
\* reloads the page loads so far
IdbGhostInit ==
    [made     |-> 0,
     failed   |-> {},
     accepted |-> [sid \in SessionIds |-> {}],
     closed   |-> {},
     reloads  |-> 0]

\* useState(false) of isCreatingSession
SessionManagerInit == [isCreatingSession |-> FALSE]

\* no read of the store has been made
QueryIdle == [pc |-> "idle"]

\* no initializeOnlineService thunk has been dispatched
ConnectIdle == [inFlight |-> 0, settled |-> <<>>]

\* initialState.uploadInterval, in milliseconds
uploadInterval == 5000

\* the longest period of the upload interval (setupBatchUploadInterval), in
\* milliseconds
MaxTickMillis == 1000

\* the unit of time of the model, in milliseconds: half a polling tick
TimeUnit == MaxTickMillis \div 2

\* Math.min(batchSettings.uploadInterval, 1000), in units of time
TickPeriod ==
    (IF uploadInterval < MaxTickMillis THEN uploadInterval ELSE MaxTickMillis) \div TimeUnit

\* batchSettings.uploadInterval, in units of time
UploadPeriod == uploadInterval \div TimeUnit

\* the hook before a recording: no interval, lastUploadTimeRef = 0 (longer
\* ago than any upload interval), no batch in flight
CadenceIdle ==
    [isRecording |-> FALSE, elapsed |-> 0, sinceUpload |-> UploadPeriod,
     batch |-> None, byTimer |-> FALSE, next |-> 1]

StoreInit ==
    /\ idb = IdbInit
    /\ idbGhost = IdbGhostInit
    /\ sessionManager = SessionManagerInit
    /\ storeOps = <<>>
    /\ query = QueryIdle
    /\ connect = ConnectIdle
    /\ cadence = CadenceIdle

\* the events made+1 .. made+n
FreshEvents(made, n) == [i \in 1..n |-> made + i]

IdbFrame ==
    /\ UNCHANGED codecVars
    /\ UNCHANGED fileVars
    /\ UNCHANGED remoteVars
    /\ UNCHANGED callVars
    /\ UNCHANGED <<sessionManager, storeOps>>
    /\ UNCHANGED queryVars
    /\ UNCHANGED connectVars
    /\ UNCHANGED cadenceVars

\* a call of createSession
CreateSessionCall(ok) ==
    /\ Len(idb.sessions) < MaxSessions
    /\ idb' = createSession(idb, ok).db
    /\ UNCHANGED idbGhost
    /\ IdbFrame

\* a call of endSession(sessionId)
EndSessionCall(sessionId, ok) ==
    /\ idb' = endSession(idb, sessionId, ok).db
    /\ UNCHANGED idbGhost
    /\ IdbFrame

\* a call of storeData(sessionId, data) with n events never stored before
StoreDataCall(sessionId, n, outcome) ==
    /\ idbGhost.made + n <= MaxStored
    /\ \E data \in {FreshEvents(idbGhost.made, n)} :
       \E r \in {storeData(idb, sessionId, data, outcome)} :
          /\ idb' = r.db
          /\ idbGhost' = [idbGhost EXCEPT !.made = @ + n,
                                          !.failed = IF r.ok THEN @ ELSE @ \cup Uids(data)]
    /\ IdbFrame

IdbNext ==
    \/ \E ok \in BOOLEAN : CreateSessionCall(ok)
    \/ \E sessionId \in DOMAIN idb.sessions \cup {MissingSession}, ok \in BOOLEAN :
          EndSessionCall(sessionId, ok)
    \/ \E sessionId \in DOMAIN idb.sessions \cup {MissingSession},
          n \in 0..MaxStoreBatch, outcome \in StoreOutcomes :
          StoreDataCall(sessionId, n, outcome)

----------------------------------------------------------------------------
(* Embedded store driven by the application: measurementSlice thunks and   *)
(* SessionManager                                                          *)

\* most thunks in flight at once
MaxStoreOps == 3

\* most page reloads in one behaviour
MaxReloads == 1

\* the values setBatchSize is given in the model
PendingBatchSizes == {1, 2}

\* selectBatchState
pendingCount(m) == Len(m.pendingBatch)

shouldFlush(m) == Len(m.pendingBatch) >= m.batchSize

\* the setIndexedDBEnabled reducer
setIndexedDBEnabled(m, enabled) ==
    [m EXCEPT !.idbEnabled = enabled, !.useIndexedDB = enabled]

\* the setBatchSize reducer
setBatchSize(m, n) == [m EXCEPT !.batchSize = n]

\* initializeIndexedDB.fulfilled / .rejected
initializeIndexedDBFulfilled(m) ==
    [m EXCEPT !.isInitialized = TRUE, !.lastError = FALSE,
              !.idbEnabled = TRUE, !.useIndexedDB = TRUE]

initializeIndexedDBRejected(m) ==
    [m EXCEPT !.isInitialized = FALSE, !.idbEnabled = FALSE, !.lastError = TRUE]

\* createMeasurementSession.fulfilled / .rejected
createMeasurementSessionFulfilled(m, session) == [m EXCEPT !.currentSession = session]

createMeasurementSessionRejected(m) == [m EXCEPT !.lastError = TRUE]

\* endMeasurementSession.fulfilled (there is no reducer for .rejected)
CurrentIs(m, sessionId) ==
    m.currentSession # None /\ m.currentSession[1].sessionId = sessionId

endMeasurementSessionFulfilled(m, sessionId, session) ==
    IF CurrentIs(m, sessionId) THEN [m EXCEPT !.currentSession = session] ELSE m

\* persistDataToIndexedDB.fulfilled / .rejected
persistDataToIndexedDBFulfilled(m) == [m EXCEPT !.pendingBatch = <<>>]

\* a rejected flush that also empties pendingBatch, as the fulfilled one does
persistDataToIndexedDBRejected_clearing(m) ==
    [m EXCEPT !.lastError = TRUE, !.pendingBatch = <<>>]

persistDataToIndexedDBRejected(m) == [m EXCEPT !.lastError = TRUE]

\* a thunk in flight: kind is "initialize", "create", "end" or "persist";
\* flush is what handleEndSession read from batchState.pendingCount > 0 when
\* it was called; closing marks the persist that handleEndSession awaits last
StoreOp(kind, sessionId, data, flush, closing) ==
    [kind |-> kind, sessionId |-> sessionId, data |-> data,
     flush |-> flush, closing |-> closing]

InitializeOp == StoreOp("initialize", 0, <<>>, FALSE, FALSE)

\* the batch auto-save effect after a render that took the store from m0 to
\* m1 (sessionChanged: currentSession is another object): when a dependency
\* changed and the condition holds it dispatches persistDataToIndexedDB with
\* the current session id and data: []
batchAutoSave(m0, m1, sessionChanged, ops) ==
    IF /\ \/ shouldFlush(m0) # shouldFlush(m1)
          \/ sessionChanged
          \/ m0.idbEnabled # m1.idbEnabled
       /\ shouldFlush(m1) /\ m1.currentSession # None /\ m1.idbEnabled
    THEN Append(ops, StoreOp("persist", m1.currentSession[1].sessionId, <<>>, FALSE, FALSE))
    ELSE ops

\* the session block of SessionManager is rendered
SessionBlockShown(m) == m.idbEnabled /\ m.isInitialized

SessionRunning(m) == m.currentSession # None /\ m.currentSession[1].isActive

StoreFrame ==
    /\ UNCHANGED codecVars
    /\ UNCHANGED <<fileSettings, autoSave, fileOps, fs, sessionLines, didReset,
                   idleLines, writeFailures>>
    /\ UNCHANGED remoteVars
    /\ UNCHANGED callVars
    /\ UNCHANGED queryVars
    /\ UNCHANGED connectVars
    /\ UNCHANGED cadenceVars

\* handleDataReceived: processSerialData, then the render of SessionManager
StoreReceiveLine(ln) ==
    /\ Len(rxLog) < MaxLines
    /\ Len(storeOps) < MaxStoreOps
    /\ \E idx \in {Len(rxLog) + 1} :
       \E pd \in {ParsedRef(ln, idx)} :
       \E m1 \in {processSerialDataFulfilled(measurement, ln, pd, clock + 1)} :
          /\ measurement' = m1
          /\ storeOps' = batchAutoSave(measurement, m1, FALSE, storeOps)
          /\ idbGhost' =
                IF pd # 0 /\ Len(m1.pendingBatch) > Len(measurement.pendingBatch)
                   /\ SessionRunning(measurement)
                THEN [idbGhost EXCEPT
                        !.accepted[measurement.currentSession[1].sessionId] = @ \cup {idx}]
                ELSE idbGhost
    /\ clock' = IF measurement.startTime = 0 THEN clock + 1 ELSE clock
    /\ rxLog' = Append(rxLog, ln)
    /\ UNCHANGED <<idb, sessionManager>>
    /\ StoreFrame

\* handleToggleIndexedDB: setIndexedDBEnabled(!isEnabled)
ToggleIndexedDB ==
    /\ Len(storeOps) < MaxStoreOps
    /\ \E m1 \in {setIndexedDBEnabled(measurement, ~measurement.idbEnabled)} :
          /\ measurement' = m1
          /\ storeOps' = batchAutoSave(measurement, m1, FALSE, storeOps)
    /\ UNCHANGED <<clock, rxLog, idb, idbGhost, sessionManager>>
    /\ StoreFrame

\* setBatchSize(n) is dispatched
SetBatchSize(n) ==
    /\ Len(storeOps) < MaxStoreOps
    /\ n # measurement.batchSize
    /\ \E m1 \in {setBatchSize(measurement, n)} :
          /\ measurement' = m1
          /\ storeOps' = batchAutoSave(measurement, m1, FALSE, storeOps)
    /\ UNCHANGED <<clock, rxLog, idb, idbGhost, sessionManager>>
    /\ StoreFrame

\* handleStartSession, from the button shown while there is no current
\* session: setIsCreatingSession(true), dispatch createMeasurementSession
StartSession ==
    /\ SessionBlockShown(measurement)
    /\ measurement.currentSession = None
    /\ ~sessionManager.isCreatingSession
    /\ Len(idb.sessions) < MaxSessions
    /\ Len(storeOps) < MaxStoreOps
    /\ sessionManager' = [sessionManager EXCEPT !.isCreatingSession = TRUE]
    /\ storeOps' = Append(storeOps, StoreOp("create", 0, <<>>, FALSE, FALSE))
    /\ UNCHANGED <<measurement, clock, rxLog, idb, idbGhost>>
    /\ StoreFrame

\* handleEndSession, from the button shown while currentSession.isActive:
\* dispatch endMeasurementSession; what follows the await is in StoreOpDone
EndSession ==
    /\ SessionBlockShown(measurement)
    /\ SessionRunning(measurement)
    /\ Len(storeOps) < MaxStoreOps - 1
    /\ storeOps' = Append(storeOps,
                          StoreOp("end", measurement.currentSession[1].sessionId, <<>>,
                                  pendingCount(measurement) > 0, FALSE))
    /\ UNCHANGED <<measurement, clock, rxLog, idb, idbGhost, sessionManager>>
    /\ StoreFrame

\* the oldest thunk in flight settles: its service calls, its reducer, what
\* its caller does after the await, then the render of SessionManager
StoreOpDone(outcome) ==
    /\ storeOps # <<>>
    /\ \E op \in {Head(storeOps)} :
       \E ops \in {Tail(storeOps)} :
          \/ /\ op.kind = "initialize"
             /\ \E m1 \in {IF outcome = "ok" THEN initializeIndexedDBFulfilled(measurement)
                           ELSE initializeIndexedDBRejected(measurement)} :
                   /\ measurement' = m1
                   /\ storeOps' = batchAutoSave(measurement, m1, FALSE, ops)
             /\ UNCHANGED <<idb, idbGhost, sessionManager>>
          \/ /\ op.kind = "create"
             /\ \E r \in {createSession(idb, outcome = "ok")} :
                \E m1 \in {IF r.ok
                           THEN createMeasurementSessionFulfilled(
                                    measurement, getSession(r.db, r.sessionId))
                           ELSE createMeasurementSessionRejected(measurement)} :
                   /\ idb' = r.db
                   /\ measurement' = m1
                   /\ storeOps' = batchAutoSave(measurement, m1, r.ok, ops)
             /\ sessionManager' = [sessionManager EXCEPT !.isCreatingSession = FALSE]
             /\ UNCHANGED idbGhost
          \/ /\ op.kind = "end"
             /\ \E r \in {endSession(idb, op.sessionId, outcome = "ok")} :
                \E m1 \in {IF r.ok
                           THEN endMeasurementSessionFulfilled(
                                    measurement, op.sessionId,
                                    getSession(r.db, op.sessionId))
                           ELSE measurement} :
                \E after \in {IF op.flush
                              THEN Append(ops, StoreOp("persist", op.sessionId, <<>>,
                                                       FALSE, r.ok))
                              ELSE ops} :
                   /\ idb' = r.db
                   /\ measurement' = m1
                   /\ storeOps' = batchAutoSave(measurement, m1,
                                                r.ok /\ CurrentIs(measurement, op.sessionId),
                                                after)
                   /\ idbGhost' = IF r.ok /\ ~op.flush
                                  THEN [idbGhost EXCEPT !.closed = @ \cup {op.sessionId}]
                                  ELSE idbGhost
             /\ UNCHANGED sessionManager
          \/ /\ op.kind = "persist"
             /\ \E r \in {storeData(idb, op.sessionId, op.data, outcome)} :
                \E m1 \in {IF r.ok THEN persistDataToIndexedDBFulfilled(measurement)
                           ELSE persistDataToIndexedDBRejected(measurement)} :
                   /\ idb' = r.db
                   /\ measurement' = m1
                   /\ storeOps' = batchAutoSave(measurement, m1, FALSE, ops)
                   /\ idbGhost' =
                         [idbGhost EXCEPT
                            !.closed = IF op.closing THEN @ \cup {op.sessionId} ELSE @,
                            !.failed = IF r.ok THEN @ ELSE @ \cup Uids(op.data)]
             /\ UNCHANGED sessionManager
    /\ UNCHANGED <<clock, rxLog>>
    /\ StoreFrame

\* the page is loaded again: the store and the component start from their
\* initial state, the thunks in flight are gone, the mount effect dispatches
\* initializeIndexedDB; the object stores keep what was committed
Reload ==
    /\ idbGhost.reloads < MaxReloads
    /\ measurement' = MeasurementInit
    /\ sessionManager' = SessionManagerInit
    /\ storeOps' = <<InitializeOp>>
    /\ idbGhost' = [idbGhost EXCEPT !.reloads = @ + 1]
    /\ UNCHANGED <<clock, rxLog, idb>>
    /\ StoreFrame

\* dispatch(persistDataToIndexedDB({sessionId, data})) with the current
\* session and the pending events as data
PersistDataCall ==
    /\ measurement.currentSession # None
    /\ measurement.pendingBatch # <<>>
    /\ Len(storeOps) < MaxStoreOps
    /\ storeOps' = Append(storeOps,
                          StoreOp("persist", measurement.currentSession[1].sessionId,
                                  measurement.pendingBatch, FALSE, FALSE))
    /\ UNCHANGED <<measurement, clock, rxLog, idb, idbGhost, sessionManager>>
    /\ StoreFrame

StoreNext ==
    \/ \E ln \in RemoteLines : StoreReceiveLine(ln)
    \/ ToggleIndexedDB
    \/ \E n \in PendingBatchSizes : SetBatchSize(n)
    \/ StartSession
    \/ EndSession
    \/ \E outcome \in StoreOutcomes : StoreOpDone(outcome)
    \/ Reload

----------------------------------------------------------------------------
(* JavaScript numbers: IEEE 754 binary64, for the non-negative values the  *)
(* histogram computes.  A number is [b, e]: an integer b times 2^e, with b *)
(* written in limbs of 8 bits, lowest first and with no zero limb at the   *)
(* high end.  Every operation rounds its exact result to 53 significant    *)
(* bits, to nearest, ties to even.                                         *)

LimbBase == Pow2(8)

RECURSIVE NatLimbs(_)
NatLimbs(n) == IF n = 0 THEN <<>> ELSE <<n % LimbBase>> \o NatLimbs(n \div LimbBase)

StripLimbs(b) ==
    IF \A i \in DOMAIN b : b[i] = 0 THEN <<>>
    ELSE SubSeq(b, 1, CHOOSE i \in DOMAIN b : b[i] # 0 /\ \A j \in (i + 1)..Len(b) : b[j] = 0)

ZeroLimbs(k) == [i \in 1..k |-> 0]

RECURSIVE AddLimbs(_, _, _)
AddLimbs(a, b, carry) ==
    IF a = <<>> /\ b = <<>> THEN NatLimbs(carry)
    ELSE LET t == (IF a = <<>> THEN 0 ELSE a[1]) + (IF b = <<>> THEN 0 ELSE b[1]) + carry
         IN  <<t % LimbBase>> \o AddLimbs(IF a = <<>> THEN a ELSE Tail(a),
                                          IF b = <<>> THEN b ELSE Tail(b),
                                          t \div LimbBase)

RECURSIVE MulLimbs(_, _, _)
MulLimbs(b, k, carry) ==
    IF b = <<>> THEN NatLimbs(carry)
    ELSE LET t == b[1] * k + carry
         IN  <<t % LimbBase>> \o MulLimbs(Tail(b), k, t \div LimbBase)

\* -1, 0, 1 as the integer a is below, equal to, above the integer b
CmpLimbs(a, b) ==
    IF Len(a) # Len(b) THEN (IF Len(a) < Len(b) THEN -1 ELSE 1)
    ELSE IF a = b THEN 0
    ELSE LET m == CHOOSE i \in DOMAIN a :
                      a[i] # b[i] /\ \A j \in (i + 1)..Len(a) : a[j] = b[j]
         IN  IF a[m] < b[m] THEN -1 ELSE 1

\* how many bits the integer b has
BitLength(b) ==
    IF b = <<>> THEN 0
    ELSE 8 * (Len(b) - 1) + Cardinality({k \in 0..7 : Pow2(k) <= b[Len(b)]})

\* b * 2^r and the integer part of b / 2^r
ShiftLeft(b, r) ==
    IF b = <<>> THEN b ELSE ZeroLimbs(r \div 8) \o StripLimbs(MulLimbs(b, Pow2(r % 8), 0))

ShiftRight(b, r) ==
    LET c == SubSeq(b, (r \div 8) + 1, Len(b))
    IN  StripLimbs([i \in 1..Len(c) |->
                       (c[i] \div Pow2(r % 8))
                         + (IF i < Len(c) THEN (c[i + 1] % Pow2(r % 8)) * Pow2(8 - (r % 8))
                            ELSE 0)])

\* bit r of b (bit 0 is the lowest), and whether the r lowest bits are all 0
BitAt(b, r) == (b[(r \div 8) + 1] \div Pow2(r % 8)) % 2

LowBitsZero(b, r) ==
    /\ \A i \in 1..(r \div 8) : b[i] = 0
    /\ b[(r \div 8) + 1] % Pow2(r % 8) = 0

\* round to nearest, ties to even, at 53 significant bits
RoundToDouble(x) ==
    IF BitLength(x.b) <= 53 THEN x
    ELSE LET r    == BitLength(x.b) - 53
             kept == ShiftRight(x.b, r)
             up   == /\ BitAt(x.b, r - 1) = 1
                     /\ (~LowBitsZero(x.b, r - 1) \/ kept[1] % 2 = 1)
         IN  [b |-> IF up THEN AddLimbs(kept, <<1>>, 0) ELSE kept, e |-> x.e + r]

\* the number an integer n >= 0 is
FromNat(n) == [b |-> NatLimbs(n), e |-> 0]

LowerExponent(x, y) == IF x.e < y.e THEN x.e ELSE y.e

\* x + y
NumberAdd(x, y) ==
    RoundToDouble([b |-> AddLimbs(ShiftLeft(x.b, x.e - LowerExponent(x, y)),
                                  ShiftLeft(y.b, y.e - LowerExponent(x, y)), 0),
                   e |-> LowerExponent(x, y)])

\* x * k for an integer k >= 0
NumberTimes(x, k) == RoundToDouble([b |-> StripLimbs(MulLimbs(x.b, k, 0)), e |-> x.e])

\* the next k limbs of rem / d after the binary point, highest first; the
\* lowest bit of the last one is set when a remainder is left
RECURSIVE FractionLimbs(_, _, _)
FractionLimbs(rem, d, k) ==
    IF k = 0 THEN <<>>
    ELSE IF k = 1
    THEN <<((rem * LimbBase) \div d)
             + (IF (rem * LimbBase) % d # 0 /\ ((rem * LimbBase) \div d) % 2 = 0
                THEN 1 ELSE 0)>>
    ELSE <<(rem * LimbBase) \div d>> \o FractionLimbs((rem * LimbBase) % d, d, k - 1)

ReverseLimbs(b) == [i \in 1..Len(b) |-> b[Len(b) + 1 - i]]

\* n / d for integers n >= 0 and d >= 1: the quotient is developed to 80 bits
\* after the binary point, far more than the 53 kept, and rounded once
NumberDivide(n, d) ==
    RoundToDouble([b |-> StripLimbs(ReverseLimbs(FractionLimbs(n % d, d, 10))
                                      \o NatLimbs(n \div d)),
                   e |-> -80])

NumberCompare(x, y) ==
    CmpLimbs(ShiftLeft(x.b, x.e - LowerExponent(x, y)),
             ShiftLeft(y.b, y.e - LowerExponent(x, y)))

----------------------------------------------------------------------------
(* Reads of the embedded store: getData and generateADCHistogram           *)

\* most items the measurementData store holds when it is read
MaxQueryStored == 3

\* event numbers and ADC values of the stored events
EventNumbers == {1, 2}

AdcSamples == {0, 61}

\* storedAt values: the ISO time of the storeData call, as its rank in time
StoredAtValues == {1, 2}

\* limit values of a paged read
PageLimits == {1, 2}

\* orderBy fields of a read: a number field and the string field
OrderFields == {"event", "storedAt"}

OrderDirections == {"asc", "desc"}

BinCounts == {1, 2, 7}

\* aValue.localeCompare(bValue) for two ISO time strings, given by their ranks
localeCompare(aValue, bValue) == IF aValue < bValue THEN -1 ELSE IF aValue > bValue THEN 1 ELSE 0

\* the comparator handed to results.sort
compareItems(a, b, orderBy, orderDirection) ==
    Then(IF orderBy = "storedAt" THEN localeCompare(a.storedAt, b.storedAt)
         ELSE a.event - b.event,
         LAMBDA comparison : IF orderDirection = "asc" THEN comparison ELSE -comparison)

\* Array.prototype.sort is stable: x goes before the first element that the
\* comparator puts after it
RECURSIVE insertSorted(_, _, _, _)
insertSorted(sorted, x, orderBy, orderDirection) ==
    IF sorted = <<>> THEN <<x>>
    ELSE IF compareItems(Head(sorted), x, orderBy, orderDirection) > 0
    THEN <<x>> \o sorted
    ELSE <<Head(sorted)>> \o insertSorted(Tail(sorted), x, orderBy, orderDirection)

RECURSIVE sortItems(_, _, _)
sortItems(items, orderBy, orderDirection) ==
    IF items = <<>> THEN <<>>
    ELSE insertSorted(sortItems(SubSeq(items, 1, Len(items) - 1), orderBy, orderDirection),
                      items[Len(items)], orderBy, orderDirection)

\* source.getAll(keyRange): the items of the session in key order, or every
\* item when sessionId is not given (0); the key of an item, its id, is its
\* position in the store (autoIncrement)
RECURSIVE getAllFrom(_, _, _)
getAllFrom(items, sessionId, id) ==
    IF id > Len(items) THEN <<>>
    ELSE (IF sessionId = 0 \/ items[id].sessionId = sessionId
          THEN <<[id        |-> id,
                  sessionId |-> items[id].sessionId,
                  event     |-> items[id].event,
                  adc       |-> items[id].adc,
                  storedAt  |-> items[id].storedAt]>>
          ELSE <<>>) \o getAllFrom(items, sessionId, id + 1)

getAll(items, sessionId) == getAllFrom(items, sessionId, 1)

\* a variant of slice that takes the element at end as well
Slice_inclusive(s, start, end) ==
    SubSeq(s, start + 1, IF end + 1 < Len(s) THEN end + 1 ELSE Len(s))

\* Array.prototype.slice(start, end) for 0 <= start <= end
Slice(s, start, end) == SubSeq(s, start + 1, IF end < Len(s) THEN end ELSE Len(s))

\* getData(options): getAll, sort, slice(offset, offset + limit)
getData(db, options) ==
    Slice(sortItems(getAll(db.measurementData, options.sessionId),
                    options.orderBy, options.orderDirection),
          options.offset, options.offset + options.limit)

MinOf(values) == CHOOSE v \in values : \A w \in values : v <= w

MaxOf(values) == CHOOSE v \in values : \A w \in values : w <= v

\* one bin of generateADCHistogram: bin i of binCount over adcValues
histogramBin(adcValues, minADC, binSize, i, binCount) ==
    Then(NumberAdd(FromNat(minADC), NumberTimes(binSize, i)), LAMBDA minValue :
    Then(NumberAdd(FromNat(minADC), NumberTimes(binSize, i + 1)), LAMBDA maxValue :
        [bin      |-> i,
         count    |-> Cardinality(
                          {j \in DOMAIN adcValues :
                              /\ NumberCompare(FromNat(adcValues[j]), minValue) >= 0
                              /\ IF i = binCount - 1
                                 THEN NumberCompare(FromNat(adcValues[j]), maxValue) <= 0
                                 ELSE NumberCompare(FromNat(adcValues[j]), maxValue) < 0}),
         minValue |-> minValue,
         maxValue |-> maxValue]))

\* generateADCHistogram(sessionId, binCount): getData with the default order
\* and a limit no store reaches, then one pass over the values for every bin
generateADCHistogram(db, sessionId, binCount) ==
    Then(getData(db, [sessionId |-> sessionId, limit |-> Len(db.measurementData),
                      offset |-> 0, orderBy |-> "event", orderDirection |-> "desc"]),
         LAMBDA data :
    IF Len(data) = 0 THEN <<>>
    ELSE Then([j \in DOMAIN data |-> data[j].adc], LAMBDA adcValues :
         Then(MinOf({adcValues[j] : j \in DOMAIN adcValues}), LAMBDA minADC :
         Then(MaxOf({adcValues[j] : j \in DOMAIN adcValues}), LAMBDA maxADC :
         Then(NumberDivide(maxADC - minADC, binCount), LAMBDA binSize :
             [k \in 1..binCount |->
                 histogramBin(adcValues, minADC, binSize, k - 1, binCount)])))))

\* the stored sets read: up to MaxQueryStored events in the order they were
\* added, each under one of the sessions; storedAt never decreases along the
\* store
StoredItems ==
    [sessionId : SessionIds, event : EventNumbers, adc : AdcSamples,
     storedAt : StoredAtValues]

StoredSets ==
    {items \in UNION {[1..n -> StoredItems] : n \in 0..MaxQueryStored} :
        \A i \in 1..(Len(items) - 1) : items[i].storedAt <= items[i + 1].storedAt}

\* the session records of a store that holds items
SessionsOf(items) ==
    [sid \in SessionIds |->
        [isActive    |-> TRUE,
         totalEvents |-> Cardinality({i \in DOMAIN items : items[i].sessionId = sid})]]

QueryInit ==
    /\ idb \in {[sessions |-> SessionsOf(items), measurementData |-> items] :
                   items \in StoredSets}
    /\ idbGhost = IdbGhostInit
    /\ sessionManager = SessionManagerInit
    /\ storeOps = <<>>
    /\ query = QueryIdle
    /\ connect = ConnectIdle
    /\ cadence = CadenceIdle

QueryFrame ==
    /\ UNCHANGED codecVars
    /\ UNCHANGED fileVars
    /\ UNCHANGED remoteVars
    /\ UNCHANGED callVars
    /\ UNCHANGED storeVars
    /\ UNCHANGED connectVars
    /\ UNCHANGED cadenceVars

\* a caller reads the first page: getData({sessionId, limit, offset: 0, orderBy, orderDirection})
GetFirstPage(sessionId, limit, orderBy, orderDirection) ==
    /\ query.pc = "idle"
    /\ \E options \in {[sessionId |-> sessionId, limit |-> limit, offset |-> 0,
                        orderBy |-> orderBy, orderDirection |-> orderDirection]} :
          query' = [pc |-> "paging", options |-> options,
                    pages |-> <<getData(idb, options)>>]
    /\ QueryFrame

\* the caller reads the next page, offset raised by limit, until a page comes back empty
GetNextPage ==
    /\ query.pc = "paging"
    /\ query.pages[Len(query.pages)] # <<>>
    /\ \E options \in {[query.options EXCEPT !.offset = @ + query.options.limit]} :
          query' = [query EXCEPT !.options = options,
                                 !.pages = Append(@, getData(idb, options))]
    /\ QueryFrame

\* a caller asks for the ADC histogram of a session
GenerateHistogram(sessionId, binCount) ==
    /\ query.pc = "idle"
    /\ query' = [pc |-> "histogram", sessionId |-> sessionId, binCount |-> binCount,
                 bins |-> generateADCHistogram(idb, sessionId, binCount)]
    /\ QueryFrame

QueryNext ==
    \/ \E sessionId \in SessionIds, limit \in PageLimits,
          orderBy \in OrderFields, orderDirection \in OrderDirections :
          GetFirstPage(sessionId, limit, orderBy, orderDirection)
    \/ GetNextPage
    \/ \E sessionId \in SessionIds, binCount \in BinCounts :
          GenerateHistogram(sessionId, binCount)

----------------------------------------------------------------------------
(* Input lines of the codec harness                                        *)

\* most tokens a generated line has
MaxTokens == 10

\* a well-formed 9-token reading: event date totaltime adc sipm deadtime temp hum press
BaseTokens9 ==
    << <<"4", "2">>,
       <<"2", "0", "2", "5", "-", "0", "6", "-", "1", "8">>,
       <<"1", "5", "0", "0">>,
       <<"5", "1", "2">>,
       <<"3", ".", "3">>,
       <<"1", "0", "0">>,
       <<"2", "1", ".", "5">>,
       <<"4", "5", ".", "2">>,
       <<"1", "0", "1", "2", ".", "3">> >>

\* a well-formed 6-token reading: event time adc sipm deadtime temp
BaseTokens6 ==
    << BaseTokens9[1], BaseTokens9[3], BaseTokens9[4],
       BaseTokens9[5], BaseTokens9[6], BaseTokens9[7] >>

BaseTokens(n) ==
    IF n = 6 THEN BaseTokens6
    ELSE IF n <= 9 THEN SubSeq(BaseTokens9, 1, n)
    ELSE BaseTokens9 \o [i \in 1..(n - 9) |-> <<"1">>]

\* tokens substituted into a well-formed line, one position at a time
TokenPool ==
    { <<"7">>, <<"0">>, <<"0", "0", "7">>, <<"1", "2", "a">>, <<"a", "b">>,
      <<"#">>, <<"#", "1">>, <<"-", "5">>, <<"+", "4">>, <<"-", "0">>,
      <<"3", ".", "5", "0">>, <<".", "5">>, <<"-", "0", ".", "2", "5">>,
      <<"4", "5", ".", "0">>, <<"-">>, <<".">> }

Separators == { <<" ">>, <<"\t">>, <<" ", " ">> }

Subst(toks, p, t) == [i \in 1..Len(toks) |-> IF i = p THEN t ELSE toks[i]]

Lines ==
    { (IF lead THEN <<" ">> ELSE <<>>) \o Join(Subst(BaseTokens(n), p, t), sep) :
        n \in 1..MaxTokens, p \in 1..MaxTokens, t \in TokenPool \cup {<<"5">>},
        sep \in Separators, lead \in BOOLEAN }

\* values getCurrentTimestampString() returns in the model
PcTimestamps ==
    { <<"2", "0", "2", "6", "-", "0", "1">>, <<"2", "0", "2", "6", "-", "0", "2">> }

CodecInit ==
    /\ line \in Lines
    /\ now \in PcTimestamps
    /\ parsed = NotRun
    /\ formatted = NotRun
    /\ codecPc = "input"

\* the codec harness at rest (the sink specifications do not use it)
CodecIdle ==
    /\ line = <<>>
    /\ now = PcNow
    /\ parsed = NotRun
    /\ formatted = NotRun
    /\ codecPc = "idle"

\* the caller parses the received line (processSerialData: parseFunction(rawData))
Parse ==
    /\ codecPc = "input"
    /\ parsed' = parseRawData(line, now)
    /\ codecPc' = "parsed"
    /\ UNCHANGED <<line, now, formatted>>
    /\ UNCHANGED fileVars
    /\ UNCHANGED <<remoteVars, restVars>>

\* a parsed event is rendered for the file
FormatParsed ==
    /\ codecPc = "parsed"
    /\ ~IsNull(parsed)
    /\ formatted' = formatDataForFile(parsed)
    /\ codecPc' = "formatted"
    /\ UNCHANGED <<line, now, parsed>>
    /\ UNCHANGED fileVars
    /\ UNCHANGED <<remoteVars, restVars>>

\* a rejected line is rendered by the raw fallback
FormatRaw ==
    /\ codecPc = "parsed"
    /\ IsNull(parsed)
    /\ formatted' = formatRawDataForFile(line)
    /\ codecPc' = "formatted"
    /\ UNCHANGED <<line, now, parsed>>
    /\ UNCHANGED fileVars
    /\ UNCHANGED <<remoteVars, restVars>>

CodecNext == Parse \/ FormatParsed \/ FormatRaw

\* the codec harness alone: the sinks stay in their initial state
InitCodec == CodecInit /\ FileInit /\ RemoteInit /\ CallInit /\ StoreInit

SpecCodec == InitCodec /\ [][CodecNext]_vars

\* the append file sink fed by the serial line handler
InitFile == CodecIdle /\ FileInit /\ RemoteInit /\ CallInit /\ StoreInit

SpecFile == InitFile /\ [][FileNext]_vars

\* the remote sink fed by the serial line handler, with file auto-save off
Init ==
    /\ CodecIdle
    /\ measurement = MeasurementInit
    /\ clock = 0
    /\ rxLog = <<>>
    /\ fileSettings = [FileSettingsInit EXCEPT !.enabled = FALSE]
    /\ autoSave = AutoSaveInit
    /\ fileOps = <<>>
    /\ fs = [p \in Paths |-> NoFile]
    /\ sessionLines = {}
    /\ didReset = FALSE
    /\ idleLines = {}
    /\ writeFailures = 0
    /\ RemoteInit
    /\ CallInit
    /\ StoreInit

Spec == Init /\ [][Next]_vars

\* one OnlineDataService object and the uploadDataBatch calls made on it
InitService == CodecIdle /\ FileInit /\ RemoteInit /\ CallInit /\ StoreInit

SpecService == InitService /\ [][ServiceNext]_vars

\* the IndexedDBDataService called directly
InitIdb == CodecIdle /\ FileInit /\ RemoteInit /\ CallInit /\ StoreInit

SpecIdb == InitIdb /\ [][IdbNext]_vars

\* the embedded store behind SessionManager, after the mount effect has
\* dispatched initializeIndexedDB
InitStore ==
    /\ CodecIdle
    /\ FileInit
    /\ RemoteInit
    /\ CallInit
    /\ idb = IdbInit
    /\ idbGhost = IdbGhostInit
    /\ sessionManager = SessionManagerInit
    /\ storeOps = <<InitializeOp>>
    /\ query = QueryIdle
    /\ connect = ConnectIdle
    /\ cadence = CadenceIdle

SpecStore == InitStore /\ [][StoreNext]_vars

\* the embedded store when persistDataToIndexedDB is also dispatched with the
\* pending events as its data (SessionManager always passes an empty array,
\* for which storeData cannot fail)
PersistNext == StoreNext \/ PersistDataCall

InitPersist == InitStore

SpecPersist == InitPersist /\ [][PersistNext]_vars

----------------------------------------------------------------------------
(* onlineDataSlice on its own: its reducers dispatched in any order        *)

\* upload thunks in flight at once
MaxSliceUploads == 2

\* the largest pendingUploads an upload start or incrementPendingUploads is
\* dispatched at
MaxPendingUploads == 3

\* the longest queue queueData is dispatched at
MaxSliceQueue == 2

\* the incrementPendingUploads reducer
incrementPendingUploads(od) == [od EXCEPT !.pendingUploads = @ + 1, !.isUploading = TRUE]

\* the decrementPendingUploads reducer
decrementPendingUploads(od) ==
    LET n == IF od.pendingUploads - 1 > 0 THEN od.pendingUploads - 1 ELSE 0
    IN  [od EXCEPT !.pendingUploads = n, !.isUploading = IF n = 0 THEN FALSE ELSE @]

\* the disconnect reducer
disconnect(od) ==
    [od EXCEPT !.isConnected = FALSE, !.pendingUploads = 0, !.isUploading = FALSE]

\* uploadDataBatch.rejected
uploadDataBatchRejected(od) == uploadSettled(od)

SliceFrame ==
    /\ UNCHANGED codecVars
    /\ UNCHANGED fileVars
    /\ UNCHANGED <<hook, services, inits, syncs, ghost>>
    /\ UNCHANGED restVars

\* uploadDataOnline.pending or uploadDataBatch.pending
SliceUploadStart(kind) ==
    /\ Len(uploads) < MaxSliceUploads
    /\ onlineData.pendingUploads < MaxPendingUploads
    /\ onlineData' = uploadPending(onlineData)
    /\ uploads' = Append(uploads, [kind |-> kind])
    /\ SliceFrame

\* the thunk i settles as fulfilled, a batch with processed of its events
\* counted, the service connected or not
SliceUploadFulfilled(i, processed, isConnected) ==
    /\ i \in DOMAIN uploads
    /\ LET connectionStatus == [NewService EXCEPT !.isConnected = isConnected]
       IN  onlineData' =
             IF uploads[i].kind = "batch"
             THEN uploadDataBatchFulfilled(onlineData,
                                           [success |-> processed, failed |-> 0],
                                           connectionStatus)
             ELSE uploadDataOnlineFulfilled(onlineData, connectionStatus)
    /\ uploads' = RemoveAt(uploads, i)
    /\ SliceFrame

\* the thunk i settles as rejected
SliceUploadRejected(i) ==
    /\ i \in DOMAIN uploads
    /\ onlineData' = IF uploads[i].kind = "batch"
                     THEN uploadDataBatchRejected(onlineData)
                     ELSE uploadDataOnlineRejected(onlineData)
    /\ uploads' = RemoveAt(uploads, i)
    /\ SliceFrame

SliceIncrement ==
    /\ onlineData.pendingUploads < MaxPendingUploads
    /\ onlineData' = incrementPendingUploads(onlineData)
    /\ UNCHANGED uploads
    /\ SliceFrame

SliceDecrement ==
    /\ onlineData' = decrementPendingUploads(onlineData)
    /\ UNCHANGED uploads
    /\ SliceFrame

SliceDisconnect ==
    /\ onlineData' = disconnect(onlineData)
    /\ UNCHANGED uploads
    /\ SliceFrame

SliceSetEnabled(payload) ==
    /\ onlineData' = setEnabled(onlineData, payload)
    /\ UNCHANGED uploads
    /\ SliceFrame

SliceQueueData(data) ==
    /\ Len(onlineData.queuedData) < MaxSliceQueue
    /\ onlineData' = queueData(onlineData, data)
    /\ UNCHANGED uploads
    /\ SliceFrame

SliceNext ==
    \/ \E kind \in {"instant", "batch"} : SliceUploadStart(kind)
    \/ \E i \in DOMAIN uploads, processed \in 0..MaxSliceQueue, isConnected \in BOOLEAN :
          SliceUploadFulfilled(i, processed, isConnected)
    \/ \E i \in DOMAIN uploads : SliceUploadRejected(i)
    \/ SliceIncrement
    \/ SliceDecrement
    \/ SliceDisconnect
    \/ \E payload \in BOOLEAN : SliceSetEnabled(payload)
    \/ \E data \in 1..MaxLines : SliceQueueData(data)

\* the slice in its initialState
InitSlice == CodecIdle /\ FileInit /\ RemoteInit /\ CallInit /\ StoreInit

SpecSlice == InitSlice /\ [][SliceNext]_vars

\* reads of a store that holds a bounded set of events
InitQuery == CodecIdle /\ FileInit /\ RemoteInit /\ CallInit /\ QueryInit

SpecQuery == InitQuery /\ [][QueryNext]_vars

----------------------------------------------------------------------------
(* Connecting: initializeOnlineService followed to its settlement          *)

\* initializeOnlineService thunks dispatched in one behaviour
MaxConnects == 2

\* OnlineDataService.setupMeasurement; acked: the server answered the
\* setup-id request with a success status
setupMeasurement(s, sc) ==
    IF ~s.authToken
    THEN [ok |-> FALSE, svc |-> s, rest |-> sc, acked |-> FALSE]
    ELSE IF NextResponse(sc) = "ok"
    THEN [ok |-> TRUE, svc |-> s, rest |-> RestResponses(sc), acked |-> TRUE]
    ELSE IF NextResponse(sc) = "401"
    THEN LET h == handleTokenExpired(s, RestResponses(sc))
         IN  [ok |-> h.ok, svc |-> h.svc, rest |-> h.rest, acked |-> FALSE]
    ELSE [ok |-> FALSE, svc |-> s, rest |-> RestResponses(sc), acked |-> FALSE]

\* the payload creator of initializeOnlineService: login and
\* setupMeasurement on a new OnlineDataService; answers: the responses the
\* server gave to the requests made
initializeOnlineService(sc) ==
    LET l == login(NewService, sc)
        m == setupMeasurement(l.svc, l.rest)
    IN  IF ~l.ok
        THEN [fulfilled |-> FALSE, connectionStatus |-> l.svc, loggedIn |-> FALSE,
              acked |-> FALSE, answers |-> SubSeq(sc, 1, Len(sc) - Len(l.rest))]
        ELSE [fulfilled |-> m.ok, connectionStatus |-> m.svc, loggedIn |-> TRUE,
              acked |-> m.acked, answers |-> SubSeq(sc, 1, Len(sc) - Len(m.rest))]

\* the server's answers to the at most four requests of one initialization
InitializeScripts == [1..(MaxResponses + 1) -> Responses]

InitializeOutcomes == {initializeOnlineService(sc) : sc \in InitializeScripts}

ConnectFrame ==
    /\ UNCHANGED codecVars
    /\ UNCHANGED fileVars
    /\ UNCHANGED <<hook, services, uploads, inits, syncs, ghost>>
    /\ UNCHANGED callVars
    /\ UNCHANGED storeVars
    /\ UNCHANGED queryVars
    /\ UNCHANGED cadenceVars

\* dispatch(initializeOnlineService(config)): initializeOnlineService.pending
ConnectDispatched ==
    /\ connect.inFlight + Len(connect.settled) < MaxConnects
    /\ onlineData' = initializePending(onlineData)
    /\ connect' = [connect EXCEPT !.inFlight = @ + 1]
    /\ ConnectFrame

\* a thunk in flight settles with outcome r: initializeOnlineService.fulfilled
\* or .rejected
ConnectSettled(r) ==
    /\ connect.inFlight > 0
    /\ onlineData' =
          IF r.fulfilled
          THEN [initializeFulfilled(onlineData) EXCEPT
                   !.isConnected = r.connectionStatus.isConnected]
          ELSE initializeRejected(onlineData)
    /\ connect' = [connect EXCEPT !.inFlight = @ - 1,
                                  !.settled = Append(@, r)]
    /\ ConnectFrame

ConnectNext ==
    \/ ConnectDispatched
    \/ \E r \in InitializeOutcomes : ConnectSettled(r)

\* the settings form before the first Connect
InitConnect == CodecIdle /\ FileInit /\ RemoteInit /\ CallInit /\ StoreInit

SpecConnect == InitConnect /\ [][ConnectNext]_vars

----------------------------------------------------------------------------
(* The upload interval of useOnlineAutoUpload in time                      *)

\* the maxQueueSize the user has set in the settings form
CadenceQueueSize == 2

\* the events are told apart by their arrival number modulo this
CadenceEvents == 3

\* the condition under which the interval effect keeps an interval
CadenceArmed == onlineData.isEnabled /\ onlineData.isConnected /\ cadence.isRecording

CadenceFrame ==
    /\ UNCHANGED codecVars
    /\ UNCHANGED fileVars
    /\ UNCHANGED <<hook, services, uploads, inits, syncs, ghost>>
    /\ UNCHANGED callVars
    /\ UNCHANGED storeVars
    /\ UNCHANGED queryVars
    /\ UNCHANGED connectVars

\* setupBatchUploadInterval: clearInterval and a new setInterval. The effect
\* runs it whenever uploadBatchData is a new function, that is whenever the
\* store hands the hook a new batchData array or isReadyToUpload
setupBatchUploadInterval(c) == [c EXCEPT !.elapsed = 0]

\* handleDataReceived while recording and connected with batchSize # 1: the
\* event effect dispatches queueData, the store changes, the interval effect
\* replaces the interval
CadenceReceive ==
    /\ cadence.isRecording
    /\ onlineData' = queueData(onlineData, cadence.next)
    /\ cadence' = [setupBatchUploadInterval(cadence) EXCEPT
                     !.next = (@ % CadenceEvents) + 1]
    /\ CadenceFrame

\* one unit of time passes without any callback being due
CadenceAdvance ==
    /\ CadenceArmed => cadence.elapsed < TickPeriod
    /\ cadence' = [cadence EXCEPT
                     !.elapsed = IF CadenceArmed THEN @ + 1 ELSE 0,
                     !.sinceUpload = IF @ < UploadPeriod THEN @ + 1 ELSE @]
    /\ UNCHANGED onlineData
    /\ CadenceFrame

\* the interval callback runs: uploadBatchData if the upload interval has
\* passed since the last upload
CadenceTick ==
    /\ CadenceArmed
    /\ cadence.elapsed = TickPeriod
    /\ LET start == /\ cadence.sinceUpload >= UploadPeriod
                    /\ hook.serviceRef # 0
                    /\ selectIsOnlineReadyToUpload(onlineData)
                    /\ Len(selectOnlineDataBatch(onlineData)) # 0
       IN  /\ onlineData' = IF start THEN uploadPending(onlineData) ELSE onlineData
           /\ cadence' = [setupBatchUploadInterval(cadence) EXCEPT
                            !.batch = IF start THEN Some(selectOnlineDataBatch(onlineData))
                                      ELSE @,
                            !.byTimer = start \/ @]
    /\ CadenceFrame

\* the uploadDataBatch in flight is fulfilled after processed of its events;
\* uploadBatchData then sets lastUploadTimeRef
CadenceBatchDone(processed) ==
    /\ cadence.batch # None
    /\ processed \in 1..Len(cadence.batch[1])
    /\ onlineData' = uploadDataBatchFulfilled(
                         onlineData, [success |-> processed, failed |-> 0],
                         [NewService EXCEPT !.authToken = TRUE, !.isConnected = TRUE])
    /\ cadence' = [setupBatchUploadInterval(cadence) EXCEPT
                     !.batch = None, !.byTimer = FALSE, !.sinceUpload = 0]
    /\ CadenceFrame

\* handleDisconnected: stopMeasurement; the interval effect clears the interval
CadenceStop ==
    /\ cadence.isRecording
    /\ cadence' = [cadence EXCEPT !.isRecording = FALSE, !.elapsed = 0]
    /\ UNCHANGED onlineData
    /\ CadenceFrame

CadenceNext ==
    \/ CadenceReceive
    \/ CadenceAdvance
    \/ CadenceTick
    \/ \E processed \in 1..CadenceQueueSize : CadenceBatchDone(processed)
    \/ CadenceStop

\* the sink enabled and connected through the hook's service, a recording
\* running, nothing queued yet
InitCadence ==
    /\ CodecIdle
    /\ FileInit
    /\ onlineData = [OnlineDataInit EXCEPT !.isEnabled = TRUE, !.hasConfig = TRUE,
                                           !.isConnected = TRUE,
                                           !.maxQueueSize = CadenceQueueSize]
    /\ hook = [serviceRef |-> 1, previousConnectedRef |-> TRUE]
    /\ services = [i \in ServiceIds |-> NewService]
    /\ uploads = <<>>
    /\ inits = <<>>
    /\ syncs = <<>>
    /\ ghost = GhostInit
    /\ CallInit
    /\ idb = IdbInit
    /\ idbGhost = IdbGhostInit
    /\ sessionManager = SessionManagerInit
    /\ storeOps = <<>>
    /\ query = QueryIdle
    /\ connect = ConnectIdle
    /\ cadence = [CadenceIdle EXCEPT !.isRecording = TRUE]

\* the timer and the clock are scheduled fairly, and an upload in flight
\* settles (every fetch has a timeout)
SpecCadence ==
    /\ InitCadence
    /\ [][CadenceNext]_vars
    /\ WF_vars(CadenceTick)
    /\ WF_vars(CadenceAdvance)
    /\ WF_vars(\E processed \in 1..CadenceQueueSize : CadenceBatchDone(processed))

----------------------------------------------------------------------------
(* Properties of the codec                                                 *)

lineParts == SplitWs(Trim(line))

RecognizedCount(parts) == Len(parts) \in {6, 7, 9}

\* the tokens parseRawData reads as integers / as floats, by shape
IntTokens(parts) ==
    IF Len(parts) = 6 THEN {parts[1], parts[2], parts[3], parts[5]}
    ELSE {parts[1], parts[3], parts[4], parts[6]}

FloatTokens(parts) ==
    IF Len(parts) = 6 THEN {parts[4], parts[6]} ELSE {parts[5], parts[7]}

\* some required numeric field (event, time, adc, sipm, deadtime, temp) is not a number
HasInvalidNumeric(parts) ==
    \/ \E t \in IntTokens(parts) : isNaN(parseInt(t))
    \/ \E t \in FloatTokens(parts) : isNaN(parseFloat(t))

RecognizedValid(parts) == RecognizedCount(parts) /\ ~HasInvalidNumeric(parts)

\* decimal text exactly as JavaScript prints the number it denotes
CanonNat(d) ==
    /\ d # <<>>
    /\ \A i \in 1..Len(d) : IsDigit(d[i])
    /\ (Len(d) = 1 \/ d[1] # "0")

CanonInt(t) ==
    \/ CanonNat(t)
    \/ StartsWith(t, "-") /\ CanonNat(Tail(t)) /\ Tail(t) # <<"0">>

CanonFloat(t) ==
    \/ CanonInt(t)
    \/ \E k \in 2..(Len(t) - 1) :
          /\ t[k] = "."
          /\ LET ip == SubSeq(t, 1, k - 1)
                 fp == SubSeq(t, k + 1, Len(t))
             IN  /\ (CanonNat(ip) \/ (StartsWith(ip, "-") /\ CanonNat(Tail(ip))))
                 /\ \A i \in 1..Len(fp) : IsDigit(fp[i])
                 /\ fp[Len(fp)] # "0"

AllFloatTokens(parts) ==
    FloatTokens(parts) \cup (IF Len(parts) = 9 THEN {parts[8], parts[9]} ELSE {})

CanonicalNumerics(parts) ==
    /\ \A t \in IntTokens(parts) : CanonInt(t)
    /\ \A t \in AllFloatTokens(parts) : CanonFloat(t)

\* C5: parseRawData returns null for every line that starts with '#', every line
\* whose whitespace-separated token count is not 6, 7 or 9, and every 6/7/9-token
\* line with a required numeric field that is not a number.
C5_RejectsInvalidLines ==
    codecPc # "input" =>
        ( ( \/ StartsWith(line, "#")
            \/ ~RecognizedCount(lineParts)
            \/ HasInvalidNumeric(lineParts) )
          => IsNull(parsed) )

----------------------------------------------------------------------------
(* Properties of the append file sink                                      *)

IsPrefix(s, t) == Len(s) <= Len(t) /\ SubSeq(t, 1, Len(s)) = s

\* the file at path p holds at least one appended data line
HasDataLines(p) == \E i \in DOMAIN fs[p].content : fs[p].content[i].of > 0

\* appends of line k to path p: already in the file, or issued and not yet resolved
AppendsInFile(k, p) ==
    Cardinality({i \in DOMAIN fs[p].content : fs[p].content[i].of = k})

AppendsPending(k, p) ==
    Cardinality({i \in DOMAIN fileOps : /\ fileOps[i].kind = "append"
                                        /\ fileOps[i].path = p
                                        /\ fileOps[i].of = k})

\* C3: every line received while the file session is active, other than a
\* comment line skipped because includeComments was false at start, is appended
\* to the session file exactly once (counting an append that is still being
\* written): never zero times and never twice.
C3_FileExactlyOnce ==
    \A r \in sessionLines :
        ~r.skip => AppendsInFile(r.idx, r.path) + AppendsPending(r.idx, r.path) = 1

\* C4: once a session file holds data lines, every step leaves its old content
\* as a prefix of its new content: nothing truncates or rewrites it.
C4_AppendOnly ==
    [][\A p \in Paths : HasDataLines(p) => IsPrefix(fs[p].content, fs'[p].content)]_vars

\* C8: from the first file creation attempt until the session is reset, the
\* captured includeComments value does not change.
C8_CapturedIncludeCommentsFixed ==
    [][(/\ autoSave.initialIncludeCommentsRef # None
        /\ autoSave'.initialIncludeCommentsRef # None
        /\ ~didReset')
       => autoSave'.initialIncludeCommentsRef = autoSave.initialIncludeCommentsRef]_vars

----------------------------------------------------------------------------
(* Properties of the measurement store and the remote sink                 *)

\* the event references held as structured data anywhere in the pipeline
HeldEvents ==
    Uids(measurement.parsedData) \cup Uids(measurement.pendingBatch)
        \cup Uids(onlineData.queuedData)
        \cup (IF measurement.latestParsedData # 0
              THEN {measurement.latestParsedData} ELSE {})

\* the event has a numeric field that is not a number
HasInvalidField(ev) ==
    \/ validationIssues(ev) # {}
    \/ \E f \in {"hum", "press"} \cap DOMAIN ev : isNaN(ev[f])

\* C6: no structured event held by the pipeline (parsedData, latestParsedData,
\* pendingBatch, the upload queue) has a numeric field that is not a valid
\* number.
C6_NoInvalidEventHeld ==
    \A k \in HeldEvents : ~HasInvalidField(EventOf(rxLog, k))

\* event u is a member, not yet attempted, of an upload call in flight
InFlight(u) ==
    \E i \in DOMAIN uploads :
        \E j \in uploads[i].idx..Len(uploads[i].dataArray) : uploads[i].dataArray[j] = u

\* C1: every event accepted while recording with the remote sink enabled is
\* stored by the server, or still queued, or in flight in an upload call, or
\* was discarded from the head of the queue by capacity overflow.
C1_AtLeastOnce ==
    \A u \in ghost.accepted :
        \/ u \in ghost.received
        \/ u \in Uids(onlineData.queuedData)
        \/ InFlight(u)
        \/ u \in ghost.evicted

\* C2: when a batch upload ends with s events uploaded successfully, the queue
\* length decreases by exactly s.
C2_BatchEndRemovesSuccessesOnly ==
    ghost.batchEnd # None =>
        Len(ghost.batchEnd[1].after) = Len(ghost.batchEnd[1].before) - ghost.batchEnd[1].success

\* C9: the upload queue never holds more than maxQueueSize entries.
C9_QueueBounded == Len(onlineData.queuedData) <= onlineData.maxQueueSize

\* C10: every event accepted while the sink is enabled and not connected has
\* been enqueued exactly once.
C10_EnqueuedExactlyOnce == \A u \in ghost.offline : ghost.enq[u] = 1

\* an event accepted while the sink was not connected that is still queued and
\* has not reached the server
Backlog ==
    {u \in ghost.offline : u \in Uids(onlineData.queuedData) /\ u \notin ghost.received}

\* C11: when the connection comes up with a backlog queued, the resync pass
\* uploads the whole backlog before any timer-driven batch is started: no
\* timer batch starts while a backlog event is still queued and not uploaded.
C11_ResyncBeforeTimerBatch == [][TimerTick => Backlog = {}]_vars

\* the uploadDataOnline thunks in flight
InstantUploads == {i \in DOMAIN uploads : uploads[i].kind = "instant"}

\* C12: with batchSize = 1 and the sink connected, the upload of an accepted
\* event has completed before the next event is processed, and an event is
\* uploaded by one call only: never two immediate uploads in flight at once.
C12_OneInstantUploadAtATime == Cardinality(InstantUploads) <= 1

\* event u is a member, not yet attempted, of an upload call in flight in ups
InFlightIn(ups, u) ==
    \E i \in DOMAIN ups :
        \E j \in ups[i].idx..Len(ups[i].dataArray) : ups[i].dataArray[j] = u

\* this step accepts a new event while the sink is enabled and connected with
\* batchSize = 1
InstantAccept ==
    /\ Len(rxLog') = Len(rxLog) + 1
    /\ measurement'.latestParsedData = Len(rxLog')
    /\ onlineData.isEnabled /\ onlineData.isConnected /\ onlineData.batchSize = 1

\* C13: with batchSize = 1 and the sink connected, an accepted event is either
\* handed to an upload call or placed in the queue, never neither.
C13_InstantUploadedOrQueued ==
    [][InstantAccept =>
          \/ InFlightIn(uploads', Len(rxLog'))
          \/ Len(rxLog') \in Uids(onlineData'.queuedData)]_vars

----------------------------------------------------------------------------
(* Properties of OnlineDataService                                         *)

\* C14: within one uploadData call an auth rejection causes one token refresh
\* and one retry only: at most two upload requests and one refresh per event.
C14_OneRefreshOneRetry ==
    \A c \in Calls : calls[c].posts <= 2 /\ calls[c].refreshes <= 1

\* within a batch every backoff delay is at least the one before it
DelaysNonDecreasing ==
    \A c \in Calls :
        (calls[c].pc # "idle" /\ calls'[c].pc # "idle")
            => calls'[c].lastDelay >= calls[c].lastDelay

\* the largest delay below the retry ceiling: the one for retryCount = maxRetries
DelayCeiling == baseRetryDelay * Pow2(maxRetries) + 1000

\* C15: during a batch upload the backoff delays are non-decreasing from one
\* retry to the next and never exceed a fixed upper bound, and retryCount
\* never exceeds maxRetries.
C15_BackoffMonotoneBounded ==
    /\ [](svc.retryCount <= maxRetries)
    /\ [](\A c \in Calls : calls[c].lastDelay <= DelayCeiling)
    /\ [][DelaysNonDecreasing]_vars

----------------------------------------------------------------------------
(* Properties of the embedded store                                        *)

CountersMatch ==
    \A sessionId \in DOMAIN idb.sessions :
        idb.sessions[sessionId].totalEvents = Cardinality(StoredOf(idb, sessionId))

\* C16: after any sequence of storeData calls every session's totalEvents is
\* the number of stored items carrying its sessionId, and no event of a
\* storeData call that was rejected is in the store.
C16_StoreDataAtomic ==
    /\ CountersMatch
    /\ StoredEvents(idb) \cap idbGhost.failed = {}

\* the events that leave pendingBatch in a step
LeftBatch == Uids(measurement.pendingBatch) \ Uids(measurement'.pendingBatch)

\* event e is in measurementData under sessionId
StoredUnder(db, sessionId, e) ==
    \E i \in StoredOf(db, sessionId) : db.measurementData[i].event = e

\* a persistDataToIndexedDB dispatched by the batch auto-save effect settles
FlushDone ==
    /\ storeOps # <<>>
    /\ Head(storeOps).kind = "persist"
    /\ ~Head(storeOps).closing
    /\ storeOps' # storeOps
    /\ idbGhost'.reloads = idbGhost.reloads

\* C17: when the flush that the batch auto-save effect started at the
\* batchSize threshold settles, every event that leaves pendingBatch is in
\* the store under the session the flush was addressed to.
C17_FlushStoresBeforeClearing ==
    [][FlushDone => \A e \in LeftBatch : StoredUnder(idb', Head(storeOps).sessionId, e)]_vars

\* the store holds exactly the events accepted during session sessionId
AllStored(sessionId) ==
    /\ Cardinality(StoredOf(idb, sessionId)) = Cardinality(idbGhost.accepted[sessionId])
    /\ idb.sessions[sessionId].totalEvents = Cardinality(idbGhost.accepted[sessionId])

\* C18: once handleEndSession has run to its end for a session, the number of
\* stored events of the session and its totalEvents equal the number of
\* events accepted during the session.
C18_EndSessionStoresPending ==
    \A sessionId \in idbGhost.closed : AllStored(sessionId)

ActiveSessions == {sessionId \in DOMAIN idb.sessions : idb.sessions[sessionId].isActive}

\* C19: at most one session record of the store has isActive = true.
C19_OneActiveSession == Cardinality(ActiveSessions) <= 1

----------------------------------------------------------------------------
(* Properties of session start across the sinks                            *)

\* the writeFile of createAndWrite rejects: opening the file sink failed
FileOpenFailed == \E i \in DOMAIN fileOps : fileOps[i].kind = "create" /\ WriteFailed(i)

\* C20: when opening the file sink fails at the start of a recording, the
\* recording is aborted: the recording state is idle after the failure.
C20_OpenFailureAbortsRecording ==
    [][FileOpenFailed => ~selectIsRecording(measurement')]_vars

----------------------------------------------------------------------------
(* Properties of the file sink after a failed append                       *)

\* the file session is closed: isFileCreated false and autoSavePath null
FileSessionClosed(hk, st) == ~hk.isFileCreated /\ st.autoSavePath = None

\* C21: when the writeFile of an append rejects, the file session is closed
\* (isFileCreated false, autoSavePath null) and the failure issues no write:
\* the writes in flight afterwards are the earlier ones without the failed one.
C21_AppendFailureClosesSession ==
    [][\A i \in DOMAIN fileOps :
          (fileOps[i].kind = "append" /\ WriteFailed(i))
              => /\ FileSessionClosed(autoSave', fileSettings')
                 /\ fileOps' = RemoveAt(fileOps, i)]_vars

\* parseRawData rejected the idx-th line received
Rejected(idx) == IsNull(ParsedSamples[rxLog[idx]])

\* C22: while includeComments has been true since the start, the text of every
\* append issued for a line that parseRawData rejected is
\* formatRawDataForFile of that line, whatever was parsed before it.
C22_RejectedLineWrittenRaw ==
    fileSettings.changes = 0 =>
        \A i \in DOMAIN fileOps :
            (fileOps[i].kind = "append" /\ Rejected(fileOps[i].of))
                => fileOps[i].text = formatRawDataForFile(rxLog[fileOps[i].of]) \o <<"\n">>

\* a line starting with '#' is received in a file session that captured
\* includeComments = false
CommentReceivedExcluded ==
    /\ Len(rxLog') = Len(rxLog) + 1
    /\ StartsWith(rxLog'[Len(rxLog')], "#")
    /\ autoSave.initialIncludeCommentsRef = Some(FALSE)

\* C23: a line starting with '#' received in a session that captured
\* includeComments = false causes no append to the session file and adds no
\* event: totalEvents and pendingBatch are unchanged.
C23_ExcludedCommentAddsNothing ==
    [][CommentReceivedExcluded
          => /\ \A i \in DOMAIN fileOps' : fileOps'[i].of # Len(rxLog')
             /\ measurement'.totalEvents = measurement.totalEvents
             /\ measurement'.pendingBatch = measurement.pendingBatch]_vars

----------------------------------------------------------------------------
(* Ordering and queue discipline of the remote sink                        *)

\* upload call i has events left and is at its attempt of dataArray[idx]
Attempting(i) == uploads[i].idx <= Len(uploads[i].dataArray)

\* event a was attempted earlier by call i itself, or is at or after the
\* current position of another call in flight
PassedOver(a, i) ==
    \/ \E j \in 1..(uploads[i].idx - 1) : uploads[i].dataArray[j] = a
    \/ \E k \in DOMAIN uploads \ {i} :
          \E j \in uploads[k].idx..Len(uploads[k].dataArray) : uploads[k].dataArray[j] = a

\* C24: when an upload call is at its attempt of event b, every event a
\* accepted before b that the same call attempted earlier, or that waits in
\* another call in flight, has been uploaded successfully.
C24_UploadsInAcceptanceOrder ==
    \A i \in DOMAIN uploads :
        Attempting(i) =>
            \A a \in 1..(uploads[i].dataArray[uploads[i].idx] - 1) :
                PassedOver(a, i) => a \in ghost.received

\* C25: the data lines of a session file stand in the order in which their
\* lines were received: a line never stands before one received earlier.
C25_FileLinesInAcceptanceOrder ==
    \A p \in Paths :
        \A i, j \in DOMAIN fs[p].content :
            (i < j /\ fs[p].content[i].of > 0 /\ fs[p].content[j].of > 0)
                => fs[p].content[i].of <= fs[p].content[j].of

\* occurrences of event e in the sequence q
Occ(q, e) == Cardinality({i \in DOMAIN q : q[i] = e})

\* C26: when a batch upload ends, the queue loses no more entries of an event
\* than the batch sent of it; an event that was not sent in the batch loses none.
C26_BatchEndRemovesMembersOnly ==
    ghost.batchEnd # None =>
        \A e \in 1..MaxLines :
            Occ(ghost.batchEnd[1].before, e) - Occ(ghost.batchEnd[1].after, e)
                <= Occ(ghost.batchEnd[1].dataArray, e)

----------------------------------------------------------------------------
(* The date field through parse and format                                 *)

\* a line of a recognized shape with valid numerics has been parsed and formatted
DatedDone(n) ==
    /\ codecPc = "formatted"
    /\ RecognizedValid(lineParts)
    /\ Len(lineParts) = n

----------------------------------------------------------------------------
(* The raw fallback formatter                                              *)

NoSpace(str) == \A i \in DOMAIN str : str[i] # " "

NoAdjacentTabs(str) == \A i \in 1..(Len(str) - 1) : ~(str[i] = "\t" /\ str[i + 1] = "\t")

\* C30: formatRawDataForFile returns a comment line (its text, after leading
\* whitespace, starts with '#') unchanged; for every other line it returns the
\* line with each run of whitespace replaced by one tab, a text with no space
\* and no two adjacent tabs.
C30_RawFormatTabSeparated ==
    (codecPc = "formatted" /\ IsNull(parsed)) =>
        IF StartsWith(Trim(line), "#") THEN formatted = line
        ELSE /\ formatted = ReplaceWsRuns(line)
             /\ NoSpace(formatted)
             /\ NoAdjacentTabs(formatted)

----------------------------------------------------------------------------
(* Properties of the reads of the embedded store                           *)

\* the ADC values of the events stored under sessionId, one for every event
SessionAdc(sessionId) ==
    [j \in DOMAIN getAll(idb.measurementData, sessionId) |->
        getAll(idb.measurementData, sessionId)[j].adc]

\* the test generateADCHistogram applies to a value for bin k of bins
InBin(value, bins, k) ==
    /\ NumberCompare(FromNat(value), bins[k].minValue) >= 0
    /\ IF k = Len(bins)
       THEN NumberCompare(FromNat(value), bins[k].maxValue) <= 0
       ELSE NumberCompare(FromNat(value), bins[k].maxValue) < 0

RECURSIVE SumCounts(_)
SumCounts(bins) == IF bins = <<>> THEN 0 ELSE Head(bins).count + SumCounts(Tail(bins))

\* C29: for a session with at least one stored event, generateADCHistogram
\* returns binCount bins, the first starting at the least ADC value and the
\* last ending at or above the greatest; every stored event of the session
\* falls in exactly one bin and the counts sum to the number of its events.
C29_HistogramCountsEveryEvent ==
    (query.pc = "histogram" /\ Len(SessionAdc(query.sessionId)) >= 1) =>
        /\ Len(query.bins) = query.binCount
        /\ \A j \in DOMAIN SessionAdc(query.sessionId) :
              Cardinality({k \in DOMAIN query.bins :
                              InBin(SessionAdc(query.sessionId)[j], query.bins, k)}) = 1
        /\ SumCounts(query.bins) = Len(SessionAdc(query.sessionId))

RECURSIVE Concat(_)
Concat(pages) == IF pages = <<>> THEN <<>> ELSE Head(pages) \o Concat(Tail(pages))

\* the key a read orders by
OrderKey(item) == IF query.options.orderBy = "storedAt" THEN item.storedAt ELSE item.event

\* a stands at or before b in the direction of the read
InOrder(a, b) ==
    IF query.options.orderDirection = "asc" THEN OrderKey(a) <= OrderKey(b)
    ELSE OrderKey(a) >= OrderKey(b)

\* how many elements of a sorted set of n the page at offset holds
PageLength(n, offset, limit) ==
    IF offset >= n THEN 0 ELSE IF n - offset < limit THEN n - offset ELSE limit

\* C28: the pages getData returns for offset 0, limit, 2*limit, ... of one
\* session, with no write in between, are consecutive stretches of that
\* session's events sorted by orderBy in orderDirection: page k has the
\* elements at positions (k-1)*limit .. k*limit-1 that exist, the pages read so
\* far hold stored events of the session in order with no event twice, and when
\* an empty page ends the reading they hold every event of the session.
C28_PagesPartitionSortedSet ==
    query.pc = "paging" =>
        LET all == Concat(query.pages)
            ids == StoredOf(idb, query.options.sessionId)
            lim == query.options.limit
        IN  /\ \A k \in DOMAIN query.pages :
                  Len(query.pages[k]) = PageLength(Cardinality(ids), (k - 1) * lim, lim)
            /\ \A i \in DOMAIN all :
                  /\ all[i].id \in ids
                  /\ all[i].event = idb.measurementData[all[i].id].event
                  /\ all[i].adc = idb.measurementData[all[i].id].adc
                  /\ all[i].storedAt = idb.measurementData[all[i].id].storedAt
            /\ \A i, j \in DOMAIN all :
                  i < j => (all[i].id # all[j].id /\ InOrder(all[i], all[j]))
            /\ query.pages[Len(query.pages)] = <<>>
                  => {all[i].id : i \in DOMAIN all} = ids

\* the reading of a session is complete after at least two pages that hold
\* events, and the order returned differs from the order of storing
C28_Witness ==
    /\ query.pc = "paging"
    /\ Len(query.pages) >= 3
    /\ query.pages[Len(query.pages)] = <<>>
    /\ \E i, j \in DOMAIN Concat(query.pages) :
          i < j /\ Concat(query.pages)[i].id > Concat(query.pages)[j].id

----------------------------------------------------------------------------
(* Lines received outside the file session                                 *)

\* line k has no append pending and stands in no file
WrittenNowhere(k) ==
    /\ \A i \in DOMAIN fileOps : ~(fileOps[i].kind = "append" /\ fileOps[i].of = k)
    /\ \A p \in Paths : \A i \in DOMAIN fs[p].content : fs[p].content[i].of # k

\* C31: a line received while no file session was active (before the file was
\* created, or after the session was reset) is never appended to a session
\* file, neither at once nor later.
C31_IdleLineNeverWritten == \A k \in idleLines : WrittenNowhere(k)

(* The recording after a stop *)

\* C32: once stopMeasurement has completed (endTime is set) no step makes
\* the recording run again: isRecording is false after every step taken from
\* a stopped recording (clearData leaves it false; the application never
\* dispatches startMeasurement)
C32_StoppedStaysStopped ==
    [][measurement.endTime # 0 => ~selectIsRecording(measurement')]_vars


(* The connected flag *)

\* C33: the store shows Connected only after an initialization whose login
\* succeeded and whose setup-id request the server answered with a success
\* status
C33_ConnectedOnlyAfterSetupAck ==
    onlineData.isConnected =>
        /\ connect.settled # <<>>
        /\ connect.settled[Len(connect.settled)].loggedIn
        /\ connect.settled[Len(connect.settled)].acked

(* The cadence of timer-driven uploads *)

\* the sink is connected and recording with a non-empty queue
CadenceReady == CadenceArmed /\ onlineData.queuedData # <<>>

\* C34: while the sink stays connected and recording with a non-empty queue,
\* a timer-driven batch upload is eventually started, whatever the pace of
\* the arriving events
C34_TimerUploadEventuallyStarts == CadenceReady ~> (~CadenceReady \/ cadence.byTimer)

\* the recording has stopped with the sink connected, events still queued
\* and no upload in flight
StoppedWithQueue ==
    /\ ~cadence.isRecording
    /\ onlineData.isEnabled /\ onlineData.isConnected
    /\ onlineData.queuedData # <<>>
    /\ cadence.batch = None

\* C35: when the recording stops while the sink is connected with a
\* non-empty queue, a final batch upload of the queued events is started
C35_FinalFlushAfterStop == StoppedWithQueue ~> (cadence.batch # None)

(* Flushes of pendingBatch *)

\* the persistDataToIndexedDB at the head of the thunks in flight is rejected
\* in this step
PersistRejected ==
    /\ storeOps # <<>>
    /\ Head(storeOps).kind = "persist"
    /\ \E outcome \in StoreOutcomes :
          /\ ~storeData(idb, Head(storeOps).sessionId, Head(storeOps).data, outcome).ok
          /\ StoreOpDone(outcome)

\* C36: a rejected persistDataToIndexedDB leaves pendingBatch as it was and
\* changes nothing of the measurement state but lastError
C36_RejectedFlushKeepsBatch ==
    [][PersistRejected =>
          /\ measurement'.pendingBatch = measurement.pendingBatch
          /\ measurement' = [measurement EXCEPT !.lastError = TRUE]]_vars

\* a flush of pending events was rejected and the events are still pending
C36_Witness ==
    /\ idbGhost.failed # {}
    /\ idbGhost.failed \subseteq Uids(measurement.pendingBatch)
    /\ measurement.lastError

(* Overlapping batch uploads *)

\* the uploadDataBatch thunks in flight
BatchUploads == {i \in DOMAIN uploads : uploads[i].kind = "batch"}

\* C37: at most one uploadDataBatch is in flight at any time
C37_OneBatchInFlight == Cardinality(BatchUploads) <= 1

\* a persistDataToIndexedDB that carries its batch as data is fulfilled in
\* this step
PersistFulfilled ==
    /\ storeOps # <<>>
    /\ Head(storeOps).kind = "persist"
    /\ Head(storeOps).data # <<>>
    /\ \E outcome \in StoreOutcomes :
          /\ storeData(idb, Head(storeOps).sessionId, Head(storeOps).data, outcome).ok
          /\ StoreOpDone(outcome)

\* C38: the completion of a flush removes from pendingBatch only events of
\* the flushed batch: an event pushed while the flush was in flight is still
\* pending afterwards
C38_FlushRemovesFlushedOnly ==
    [][PersistFulfilled => LeftBatch \subseteq Uids(Head(storeOps).data)]_vars

(* The upload counter of onlineDataSlice *)

\* C39: pendingUploads is never negative and isUploading is true exactly
\* when pendingUploads is positive
C39_UploadingIffPending ==
    /\ onlineData.pendingUploads >= 0
    /\ onlineData.isUploading <=> onlineData.pendingUploads > 0

\* two thunks are in flight and the counter is back at zero (disconnect, or
\* decrementPendingUploads, ran in between)
C39_Witness ==
    /\ Len(uploads) = 2
    /\ onlineData.pendingUploads = 0
    /\ ~onlineData.isUploading

====
